---- MODULE Spec2Model ----
(***************************************************************************)
(* A model of the operation execution engine of om-cli:                    *)
(*   src/src/om_cli/services/operation_processing.py  (process_operation,  *)
(*       process_action, process_looping, should_skip_action,              *)
(*       generate_command)                                                 *)
(*   src/src/om_cli/services/parameter_processing.py  (process_parameters, *)
(*       check_for_provided_parameters,                                    *)
(*       validate_and_convert_parameter_value)                             *)
(*   src/src/om_cli/models/*.py  (LoopState, OMParameterList, ...)         *)
(*                                                                         *)
(* One run of process_operation is one behaviour.  The run is cut at the   *)
(* points where it reads the terminal (Screen().input) or calls an action  *)
(* body; everything between two such points is one atomic step.            *)
(***************************************************************************)
EXTENDS Integers, Sequences, FiniteSets, TLC

(***************************************************************************)
(* Python values.  OMParameter.value is declared str | None, but pydantic  *)
(* does not validate assignments, so an int or a bool can be stored too:   *)
(* a value carries its Python type.                                        *)
(***************************************************************************)
None == [t |-> "none", v |-> ""]
Str(s) == [t |-> "str", v |-> s]
IntVal(s) == [t |-> "int", v |-> s]
BoolVal(s) == [t |-> "bool", v |-> s]

\* Python truthiness (bool(x)) of a value
Truthy(x) ==
    CASE x.t = "none" -> FALSE
      [] x.t = "str" -> x.v # ""
      [] x.t = "int" -> x.v # "0"
      [] x.t = "bool" -> x.v = "True"

\* Python str(x) / f"{x}"
PyStr(x) == IF x.t = "none" THEN "None" ELSE x.v

\* the characters of a text; a text not listed stands for one symbol that is
\* neither a digit nor a cased letter
Chars(s) ==
    CASE s = "" -> <<>>
      [] s = "07" -> <<"0", "7">>
      [] s = "007" -> <<"0", "0", "7">>
      [] s = "42" -> <<"4", "2">>
      [] s = "-1" -> <<"-", "1">>
      [] s = "1a" -> <<"1", "a">>
      [] s = "1.5" -> <<"1", ".", "5">>
      [] s = "true" -> <<"t", "r", "u", "e">>
      [] s = "True" -> <<"T", "r", "u", "e">>
      [] s = "TRUE" -> <<"T", "R", "U", "E">>
      [] s = "tRuE" -> <<"t", "R", "u", "E">>
      [] s = "false" -> <<"f", "a", "l", "s", "e">>
      [] s = "False" -> <<"F", "a", "l", "s", "e">>
      [] s = "FALSE" -> <<"F", "A", "L", "S", "E">>
      [] s = "truee" -> <<"t", "r", "u", "e", "e">>
      [] s = "tru" -> <<"t", "r", "u">>
      [] s = " true" -> <<" ", "t", "r", "u", "e">>
      [] s = "data.id" -> <<"d", "a", "t", "a", ".", "i", "d">>
      [] s = "data.count" -> <<"d", "a", "t", "a", ".", "c", "o", "u", "n", "t">>
      [] s = "data.flag" -> <<"d", "a", "t", "a", ".", "f", "l", "a", "g">>
      [] s = "data.items.id" ->
            <<"d", "a", "t", "a", ".", "i", "t", "e", "m", "s", ".", "i", "d">>
      [] s = "data" -> <<"d", "a", "t", "a">>
      [] OTHER -> <<s>>

\* "".join(chars[k:])
RECURSIVE Join(_, _)
Join(chars, k) == IF k > Len(chars) THEN "" ELSE chars[k] \o Join(chars, k + 1)

LowerChar(c) ==
    CASE c = "A" -> "a" [] c = "E" -> "e" [] c = "F" -> "f" [] c = "L" -> "l"
      [] c = "N" -> "n" [] c = "R" -> "r" [] c = "S" -> "s" [] c = "T" -> "t"
      [] c = "U" -> "u" [] c = "Y" -> "y"
      [] OTHER -> c

\* str.lower()
Lower(s) ==
    LET chars == Chars(s)
    IN Join([k \in 1..Len(chars) |-> LowerChar(chars[k])], 1)

DigitChars == {"0", "1", "2", "3", "4", "5", "6", "7", "8", "9"}

\* str.isdigit(): at least one character and all of them digits
IsDigit(s) ==
    LET chars == Chars(s)
    IN chars # <<>> /\ \A k \in 1..Len(chars) : chars[k] \in DigitChars

RECURSIVE StripZeros(_)
StripZeros(chars) ==
    IF Len(chars) > 1 /\ chars[1] = "0" THEN StripZeros(Tail(chars)) ELSE chars

\* int(x) of a digit text, written in decimal
IntOf(s) == Join(StripZeros(Chars(s)), 1)

(***************************************************************************)
(* OMParameter (models/om_parameter.py).  action_index None is NoIndex.    *)
(***************************************************************************)
NoIndex == -9

OMParameter(name) ==
    [name |-> name, type |-> "STRING", value |-> None,
     default_value |-> None, preset_value |-> None,
     custom_input_name |-> None, override_parameter_name |-> None,
     non_stick |-> FALSE, command_parameter |-> FALSE,
     override_output_parameter_name |-> FALSE, action_index |-> NoIndex]

(***************************************************************************)
(* OMParameterList (models/om_parameter_list.py): a sequence of parameters *)
(***************************************************************************)
has_items(list) == Len(list) > 0

add_parameter(list, parameter) == Append(list, parameter)

\* index of the first element of list named name, 0 when there is none
IndexOfName(list, name) ==
    IF \E i \in 1..Len(list) : list[i].name = name
    THEN CHOOSE i \in 1..Len(list) :
            /\ list[i].name = name
            /\ \A j \in 1..(i - 1) : list[j].name # name
    ELSE 0

\* a slip: the item is appended even when a parameter of that name is there
MergeItem_Append(self, item) == add_parameter(self, item)

\* merge one item into self: replace the first parameter of that name, else append
MergeItem(self, item) ==
    LET i == IndexOfName(self, item.name)
    IN IF i > 0 THEN [self EXCEPT ![i] = item] ELSE add_parameter(self, item)

RECURSIVE MergeFrom(_, _, _)
MergeFrom(self, other_list, k) ==
    IF k > Len(other_list) THEN self
    ELSE MergeFrom(MergeItem(self, other_list[k]), other_list, k + 1)

\* OMParameterList.merge: self after self.merge(other_list)
\* a slip: self is replaced by the other list
merge_Replace(self, other_list) == other_list

merge(self, other_list) == MergeFrom(self, other_list, 1)

\* OMParameterList.override_internal_action_parameter_name
override_internal_action_parameter_name(list, internal_name, current_action_index) ==
    IF current_action_index = NoIndex THEN internal_name
    ELSE LET hits == {i \in 1..Len(list) :
                        /\ Truthy(list[i].override_parameter_name)
                        /\ list[i].override_parameter_name.v = internal_name
                        /\ list[i].action_index = current_action_index}
         IN IF hits = {} THEN internal_name
            ELSE list[CHOOSE i \in hits : \A j \in hits : i <= j].name

\* OMParameterList.get_om_parameter: index of the parameter found, 0 when not found
get_om_parameter(list, name, action_index) ==
    IndexOfName(list, override_internal_action_parameter_name(list, name, action_index))


\* a slip: every input is accepted as it is, whatever the type
validate_and_convert_parameter_value_Any(user_input, input_type) ==
    <<TRUE, Str(user_input)>>

(***************************************************************************)
(* validate_and_convert_parameter_value (parameter_processing.py):         *)
(* <<valid, validated_value>> for a str user_input and a parameter type.   *)
(***************************************************************************)
validate_and_convert_parameter_value(user_input, input_type) ==
    CASE input_type = "STRING" -> <<TRUE, Str(user_input)>>
      [] input_type = "BOOLEAN" ->
            <<Lower(user_input) \in {"true", "false"},
              BoolVal(IF Lower(user_input) = "true" THEN "True" ELSE "False")>>
      [] input_type = "INTEGER" ->
            IF IsDigit(user_input) THEN <<TRUE, IntVal(IntOf(user_input))>>
            ELSE <<FALSE, None>>
      [] OTHER -> <<FALSE, None>>

(***************************************************************************)
(* OMCondition.evaluate and OMConditionGroup.evaluate (models/).           *)
(* json.loads, jsonpath_ng and re.search are library calls: they are       *)
(* tabulated on the values the model uses.                                 *)
(***************************************************************************)
\* the values matched by jsonpath_ng.parse(path).find(value), value decoded from text
JsonPathFind(path, text) ==
    CASE path = "status" /\ text = "{status:active}" -> <<"active">>
      [] path = "status" /\ text = "{status:inactive}" -> <<"inactive">>
      [] OTHER -> <<>>

\* re.search(regex, s) finds a match
ReSearch(regex, s) ==
    CASE regex = "active" -> s \in {"active", "inactive"}
      [] regex = "^active$" -> s = "active"
      [] OTHER -> FALSE

OMCondition(parameter_name, jsonpath, regex, skip_if_path_not_found) ==
    [parameter_name |-> parameter_name, jsonpath |-> jsonpath, regex |-> regex,
     skip_if_path_not_found |-> skip_if_path_not_found]

\* OMCondition.evaluate: "True", "False", "None" (skip_if_path_not_found unset)
\* or "raise" (json.loads of a value that is not a str raises TypeError)
ConditionEvaluate(cond, om_parameters) ==
    LET i == get_om_parameter(om_parameters, cond.parameter_name, -1)
        value == om_parameters[i].value
        matches == IF i = 0 THEN <<>> ELSE JsonPathFind(cond.jsonpath, value.v)
    IN IF i > 0 /\ value.t # "str" THEN "raise"
       ELSE IF matches = <<>> THEN cond.skip_if_path_not_found
       ELSE IF \E k \in 1..Len(matches) : ReSearch(cond.regex, matches[k]) THEN "True"
       ELSE "False"

\* all(...) / any(...) over the conditions from position k on, left to right,
\* stopping at the first result that decides (or raises)
RECURSIVE AllConditions(_, _, _)
AllConditions(conds, om_parameters, k) ==
    IF k > Len(conds) THEN "True"
    ELSE LET r == ConditionEvaluate(conds[k], om_parameters)
         IN IF r = "raise" THEN "raise"
            ELSE IF r # "True" THEN "False"
            ELSE AllConditions(conds, om_parameters, k + 1)

RECURSIVE AnyCondition(_, _, _)
AnyCondition(conds, om_parameters, k) ==
    IF k > Len(conds) THEN "False"
    ELSE LET r == ConditionEvaluate(conds[k], om_parameters)
         IN IF r = "raise" THEN "raise"
            ELSE IF r = "True" THEN "True"
            ELSE AnyCondition(conds, om_parameters, k + 1)

\* a group evaluation that requires all conditions whatever the operator
GroupEvaluate_And(group, om_parameters) ==
    AllConditions(group.conditions, om_parameters, 1)

\* OMConditionGroup.evaluate
GroupEvaluate(group, om_parameters) ==
    CASE group.operator = "AND" -> AllConditions(group.conditions, om_parameters, 1)
      [] group.operator = "OR" -> AnyCondition(group.conditions, om_parameters, 1)
      [] OTHER -> "False"

RECURSIVE AllGroups(_, _, _)
AllGroups(groups, om_parameters, k) ==
    IF k > Len(groups) THEN "True"
    ELSE LET r == GroupEvaluate(groups[k], om_parameters)
         IN IF r = "raise" THEN "raise"
            ELSE IF r # "True" THEN "False"
            ELSE AllGroups(groups, om_parameters, k + 1)

\* should_skip_action (operation_processing.py): "True", "False" or "raise"
should_skip_action(action, om_parameters) ==
    IF Len(action.skip_if_conditions) > 0
    THEN AllGroups(action.skip_if_conditions, om_parameters, 1)
    ELSE "False"


(***************************************************************************)
(* ResultObject (models/result_object.py).  response is the HTTP response: *)
(* present or None; bool(response) is requests' Response.ok.               *)
(* repeat_loop is "None", "True" or "False".                               *)
(***************************************************************************)
\* what response.json() gives for a body that is not JSON (it raises ValueError)
NotJson == [t |-> "invalid", v |-> ""]

NoResponse ==
    [present |-> FALSE, ok |-> FALSE, status_code |-> 0, text |-> "", data |-> NotJson]

\* a response with its status, its text and the value response.json() returns
Response(status_code, text, data) ==
    [present |-> TRUE, ok |-> status_code < 400, status_code |-> status_code,
     text |-> text, data |-> data]

ResultObject(success, text, response, parameters) ==
    [success |-> success, text |-> text, response |-> response,
     parameters |-> parameters, repeat_action |-> FALSE, repeat_loop |-> "None"]

(***************************************************************************)
(* OMAction (models/om_action.py).  loop_number None is NoLoop.            *)
(***************************************************************************)
NoLoop == -1

OMAction(type, name) ==
    [type |-> type, name |-> name, loop_number |-> NoLoop,
     failure_termination |-> TRUE, parameters |-> <<>>, skip_if_conditions |-> <<>>]

LOOP_START(n) == [OMAction("LOOP_START", "loop_start") EXCEPT !.loop_number = n]
LOOP_END(n) == [OMAction("LOOP_END", "loop_end") EXCEPT !.loop_number = n]
FUNCTION_CALL(name) == OMAction("FUNCTION_CALL", name)
API_REQUEST(name) == OMAction("API_REQUEST", name)

(***************************************************************************)
(* The collaborators of a run.  The action packs (CustomComponents) map a  *)
(* name to a callable; what a callable returns is its own business, so the *)
(* registry gives, per name, the outcomes its body can produce: a Result,  *)
(* or an exception.                                                        *)
(***************************************************************************)
Ok == ResultObject(TRUE, "ok", NoResponse, <<>>)
Failed == ResultObject(FALSE, "failed", NoResponse, <<>>)

Returns(result) == [raises |-> FALSE, result |-> result]
Raises == [raises |-> TRUE, result |-> Failed]

OutputParameter(name, value) == [OMParameter(name) EXCEPT !.value = value]

\* CustomComponents.get_action_definition(name) is not None
IsRegistered(name) == name \in {"act", "out", "json", "rep", "sel", "boom", "dup"}

\* the outcomes of action_definition["function"](result_object, parameters, index)
ActionOutcomes(name) ==
    CASE name = "act" -> {Returns(Ok), Returns(Failed)}
      [] name = "out" ->
            {Returns(Ok),
             Returns([Ok EXCEPT !.parameters = <<OutputParameter("p", Str("acc"))>>])}
      [] name = "json" ->
            {Returns([Ok EXCEPT !.parameters = <<OutputParameter("j", v)>>]) :
                v \in {Str("{status:active}"), Str("{status:inactive}"), Str("{}"), None}}
            \cup {Returns(Ok)}
      [] name = "rep" ->
            {Returns(Ok), Returns([Ok EXCEPT !.repeat_action = TRUE]),
             Returns([Failed EXCEPT !.repeat_action = TRUE])}
      [] name = "sel" ->
            {Returns(Ok), Returns([Ok EXCEPT !.repeat_loop = "True"]),
             Returns([Ok EXCEPT !.repeat_loop = "False"])}
      [] name = "boom" -> {Returns(Ok), Raises}
      [] name = "dup" ->
            {Returns([Ok EXCEPT !.parameters = <<OutputParameter("p", Str("1")),
                                                 OutputParameter("d", Str("1")),
                                                 OutputParameter("d", Str("2"))>>])}
      [] OTHER -> {}

(***************************************************************************)
(* APIHandler (handlers/api_handler.py).  The value response.json()        *)
(* returns is a Python value: None, a str, an int, a bool, a dict (its     *)
(* items in order, each <<key, value>>) or a list.                         *)
(***************************************************************************)
Dict(items) == [t |-> "dict", v |-> items]
List(elements) == [t |-> "list", v |-> elements]

\* json.dumps(x) with the default separators
RECURSIVE dumps(_)
RECURSIVE DumpsItems(_, _)
RECURSIVE DumpsElements(_, _)
dumps(x) ==
    CASE x.t = "none" -> "null"
      [] x.t = "str" -> "\"" \o x.v \o "\""
      [] x.t = "int" -> x.v
      [] x.t = "bool" -> IF x.v = "True" THEN "true" ELSE "false"
      [] x.t = "dict" -> "{" \o DumpsItems(x.v, 1) \o "}"
      [] x.t = "list" -> "[" \o DumpsElements(x.v, 1) \o "]"

DumpsItems(items, k) ==
    IF k > Len(items) THEN ""
    ELSE (IF k > 1 THEN ", " ELSE "") \o "\"" \o items[k][1] \o "\": "
            \o dumps(items[k][2]) \o DumpsItems(items, k + 1)

DumpsElements(elements, k) ==
    IF k > Len(elements) THEN ""
    ELSE (IF k > 1 THEN ", " ELSE "") \o dumps(elements[k])
            \o DumpsElements(elements, k + 1)

\* a response whose body is the JSON text of data
JsonResponse(status_code, data) == Response(status_code, dumps(data), data)

\* a response whose body is not JSON
TextResponse(status_code, text) == Response(status_code, text, NotJson)

\* path.split(".")
RECURSIVE SplitFrom(_, _, _)
SplitFrom(chars, k, key) ==
    IF k > Len(chars) THEN <<key>>
    ELSE IF chars[k] = "." THEN <<key>> \o SplitFrom(chars, k + 1, "")
    ELSE SplitFrom(chars, k + 1, key \o chars[k])

split(path) == SplitFrom(Chars(path), 1, "")

\* dict.get(key, None)
DictGet(data, key) ==
    IF \E i \in 1..Len(data.v) : data.v[i][1] = key
    THEN data.v[CHOOSE i \in 1..Len(data.v) : data.v[i][1] = key][2]
    ELSE None

\* lines 285-294: the loop over the keys of the path, from the k-th key on; a
\* str, an int or a bool has no get, and the AttributeError is caught (line 295)
RECURSIVE WalkKeys(_, _, _)
WalkKeys(data, keys, k) ==
    IF k > Len(keys) THEN data
    ELSE IF data.t = "none" THEN None
    ELSE IF data.t = "list"
    THEN WalkKeys(List([i \in 1..Len(data.v) |->
                            IF data.v[i].t = "dict" THEN DictGet(data.v[i], keys[k])
                            ELSE None]), keys, k + 1)
    ELSE IF data.t = "dict" THEN WalkKeys(DictGet(data, keys[k]), keys, k + 1)
    ELSE None

get_value_from_path(data, path) ==
    IF path = "." THEN data ELSE WalkKeys(data, split(path), 1)

\* lines 211-235: the type and the value of the parameter made from found_value
ExtractedValue_Unconverted(found_value) == found_value

ExtractedType(found_value) ==
    CASE found_value.t = "bool" -> "BOOLEAN"
      [] found_value.t = "int" -> "INTEGER"
      [] OTHER -> "STRING"

ExtractedValue(found_value) ==
    CASE found_value.t = "none" -> None
      [] found_value.t \in {"str", "int", "bool"} -> Str(PyStr(found_value))
      [] found_value.t \in {"dict", "list"} -> Str(dumps(found_value))

\* response_variables is a sequence of <<variable, path>>, in the order of the dict
extract_values_from_response(response, response_variables, index) ==
    IF response.data.t = "invalid" THEN <<>>
    ELSE [k \in 1..Len(response_variables) |->
            LET found_value == get_value_from_path(response.data, response_variables[k][2])
            IN  [OMParameter(response_variables[k][1]) EXCEPT
                    !.type = ExtractedType(found_value),
                    !.value = ExtractedValue(found_value),
                    !.action_index = index]]

\* the endpoints of the loaded API definitions and the response variables
\* each of them declares
ResponseVariables(endpoint_name) ==
    CASE endpoint_name = "api.get" -> <<<<"id", "data.id">>>>
      [] endpoint_name = "api.vars" ->
            <<<<"id", "data.id">>, <<"count", "data.count">>, <<"flag", "data.flag">>,
              <<"data", "data">>, <<"ids", "data.items.id">>, <<"body", ".">>>>
      [] OTHER -> <<>>

KnownEndpoint(endpoint_name) == endpoint_name \in {"api.get", "api.vars"}

\* lines 53-74
assign_response_variables(response, endpoint_name, index) ==
    IF response.status_code = 200 /\ response.text = ""
    THEN <<[OMParameter("api_result") EXCEPT
                !.value = Str("The " \o endpoint_name \o " API call succeeded"),
                !.action_index = index]>>
    ELSE IF response.status_code >= 400 THEN <<>>
    ELSE extract_values_from_response(response, ResponseVariables(endpoint_name), index)

\* the responses the server (or the mock) can give to the request of an endpoint
RegistryBody == Dict(<<<<"data", Dict(<<<<"id", Str("registry-1")>>>>)>>>>)

FullBody ==
    Dict(<<<<"data",
             Dict(<<<<"id", Str("registry-1")>>, <<"count", IntVal("42")>>,
                    <<"flag", BoolVal("True")>>,
                    <<"items", List(<<Dict(<<<<"id", Str("a")>>>>), IntVal("7")>>)>>>>)>>>>)

NullBody ==
    Dict(<<<<"data",
             Dict(<<<<"id", None>>, <<"count", IntVal("0")>>,
                    <<"flag", BoolVal("False")>>, <<"items", List(<<>>)>>>>)>>>>)

Responses(endpoint_name) ==
    CASE endpoint_name = "api.get" ->
            {JsonResponse(200, RegistryBody), TextResponse(404, "body")}
      [] endpoint_name = "api.vars" ->
            {JsonResponse(200, FullBody), JsonResponse(201, FullBody),
             JsonResponse(200, NullBody), JsonResponse(200, Dict(<<>>)),
             JsonResponse(200, Dict(<<<<"data", Str("text")>>>>)),
             JsonResponse(200, List(<<RegistryBody>>)),
             JsonResponse(200, Str("")),
             JsonResponse(500, RegistryBody),
             TextResponse(200, ""), TextResponse(200, "body")}
      [] OTHER -> {}

\* lines 76-151: the Results of process_api_request; it catches every exception
\* itself, and never sets repeat_action or repeat_loop
process_api_request(endpoint_name, index) ==
    IF ~KnownEndpoint(endpoint_name)
    THEN {ResultObject(FALSE, "An unexpected error occurred while processing the request",
                       NoResponse, <<>>)}
    ELSE {ResultObject(response.status_code < 400,
                       IF response.status_code < 400 THEN ""
                       ELSE ToString(response.status_code) \o " | " \o response.text,
                       response,
                       assign_response_variables(response, endpoint_name, index)) :
                response \in Responses(endpoint_name)}
         \cup {ResultObject(FALSE, "An error occurred during the API request",
                            NoResponse, <<>>)}



(***************************************************************************)
(* The operations, arguments and flags process_operation is called with.   *)
(***************************************************************************)
Act == FUNCTION_CALL("act")

\* a skip condition on the accumulated parameter j
SkipIfActive ==
    <<[operator |-> "AND",
       conditions |-> <<OMCondition("j", "status", "^active$", "None")>>]>>

\* the declared parameter p in every combination of the fields that the
\* parameter processor reads
ParameterVariants ==
    {[OMParameter("p") EXCEPT !.type = ty, !.non_stick = ns, !.preset_value = pre,
                              !.override_output_parameter_name = oo,
                              !.default_value = dv, !.command_parameter = TRUE] :
        ty \in {"STRING", "INTEGER", "BOOLEAN", "UNDEFINED"}, ns \in BOOLEAN,
        pre \in {None, Str("pre")}, oo \in BOOLEAN, dv \in {None, Str("07")}}

LoopOperations ==
    {[operation_id |-> "loop1", actions |-> <<LOOP_START(1), Act, LOOP_END(1)>>],
     [operation_id |-> "nested",
      actions |-> <<LOOP_START(1), LOOP_START(2), Act, LOOP_END(2), LOOP_END(1)>>],
     [operation_id |-> "crossed",
      actions |-> <<LOOP_START(1), LOOP_START(2), Act, LOOP_END(1), LOOP_END(2)>>],
     [operation_id |-> "same_number",
      actions |-> <<LOOP_START(1), LOOP_START(1), Act, LOOP_END(1), LOOP_END(1)>>],
     [operation_id |-> "unopened", actions |-> <<Act, LOOP_END(1), Act>>],
     [operation_id |-> "sequence",
      actions |-> <<LOOP_START(1), Act, LOOP_END(1), LOOP_START(1), Act, LOOP_END(1)>>],
     [operation_id |-> "select",
      actions |-> <<LOOP_START(1), FUNCTION_CALL("sel"), LOOP_END(1), Act>>],
     [operation_id |-> "select_unnumbered",
      actions |-> <<LOOP_START(1), FUNCTION_CALL("sel"), Act, LOOP_END(1)>>],
     [operation_id |-> "select_unopened",
      actions |-> <<FUNCTION_CALL("sel"), LOOP_END(1), Act>>],
     [operation_id |-> "select_crossed",
      actions |-> <<LOOP_START(1), LOOP_START(2), FUNCTION_CALL("sel"), LOOP_END(1),
                    LOOP_END(2)>>],
     [operation_id |-> "unnumbered_end",
      actions |-> <<Act, OMAction("LOOP_END", "loop_end"), Act>>]}

PlainOperations ==
    {[operation_id |-> "unknown", actions |-> <<Act, FUNCTION_CALL("nope"), Act>>],
     [operation_id |-> "failure",
      actions |-> <<[API_REQUEST("api.get") EXCEPT !.failure_termination = FALSE],
                    [Act EXCEPT !.failure_termination = FALSE],
                    API_REQUEST("api.get"), FUNCTION_CALL("rep"), Act>>],
     [operation_id |-> "raising", actions |-> <<Act, FUNCTION_CALL("boom"), Act>>],
     [operation_id |-> "skip_pending",
      actions |-> <<FUNCTION_CALL("json"), FUNCTION_CALL("sel"),
                    [LOOP_END(1) EXCEPT !.skip_if_conditions = SkipIfActive],
                    Act>>],
     [operation_id |-> "vars",
      actions |-> <<[API_REQUEST("api.none") EXCEPT !.failure_termination = FALSE],
                    [API_REQUEST("api.get") EXCEPT !.failure_termination = FALSE],
                    API_REQUEST("api.vars"), Act>>],
     [operation_id |-> "skipping",
      actions |-> <<FUNCTION_CALL("json"),
                    [Act EXCEPT !.skip_if_conditions = SkipIfActive],
                    [LOOP_START(1) EXCEPT !.skip_if_conditions = SkipIfActive],
                    Act, LOOP_END(1)>>]}

ParameterOperations ==
    {[operation_id |-> "params",
      actions |-> <<FUNCTION_CALL("out"), LOOP_START(1),
                    [FUNCTION_CALL("rep") EXCEPT !.parameters = <<pv>>],
                    LOOP_END(1)>>] : pv \in ParameterVariants}
    \cup
    {[operation_id |-> "two_params",
      actions |-> <<LOOP_START(1),
                    [Act EXCEPT !.parameters =
                        <<[OMParameter("p") EXCEPT !.non_stick = TRUE,
                                                   !.command_parameter = TRUE],
                          [OMParameter("q") EXCEPT !.type = "INTEGER",
                                                   !.command_parameter = TRUE],
                          OMParameter("operation_id")>>],
                    LOOP_END(1)>>],
     [operation_id |-> "restick",
      actions |-> <<[Act EXCEPT !.parameters = <<OMParameter("p")>>],
                    FUNCTION_CALL("out"),
                    [Act EXCEPT !.parameters = <<OMParameter("p")>>]>>],
     [operation_id |-> "duplicates",
      actions |-> <<[Act EXCEPT !.parameters =
                        <<[OMParameter("p") EXCEPT !.preset_value = Str("a")],
                          [OMParameter("p") EXCEPT !.preset_value = Str("b")]>>],
                    FUNCTION_CALL("dup")>>],
     [operation_id |-> "order",
      actions |-> <<FUNCTION_CALL("out"),
                    [Act EXCEPT !.parameters =
                        <<[OMParameter("q") EXCEPT !.command_parameter = TRUE],
                          [OMParameter("p") EXCEPT !.command_parameter = TRUE]>>]>>],
     [operation_id |-> "tokens",
      actions |-> <<FUNCTION_CALL("out"),
                    [Act EXCEPT !.parameters =
                        <<[OMParameter("w") EXCEPT !.preset_value = Str("{{p}}")],
                          OMParameter("p"),
                          [OMParameter("q") EXCEPT !.type = "INTEGER"],
                          [OMParameter("r") EXCEPT !.preset_value = Str("{{p}}-{{q}}"),
                                                   !.command_parameter = TRUE],
                          [OMParameter("u") EXCEPT
                              !.default_value = Str("{{missing}}/{{u}}")]>>]>>]}

\* the command-line arguments (an OMParameterList, or the empty list the menu passes)
ArgumentLists == {<<>>, <<OutputParameter("p", Str("arg"))>>}

Scenarios ==
    [operation : LoopOperations \cup PlainOperations, argument_parameters : {<<>>},
     skip_looping : BOOLEAN]
    \cup
    [operation : ParameterOperations, argument_parameters : ArgumentLists,
     skip_looping : BOOLEAN]

\* the bounds of the model: backward jumps and repeats in one run, and the
\* inputs the user types at a prompt ("EOF" is end-of-input, CTRL+D)
MaxRepeats == 2
EOF == "EOF"
YesNoInputs == {"y", "Y", "n", "x", EOF}
ValueInputs == {"", "a", "07", "TRUE", EOF}
AckInputs == {"", EOF}

\* for _ in range(20) in handle_user_input
MaxPromptAttempts == 20

\* the two spellings of the abort text: the one process_parameters returns and
\* the one process_operation compares with
ABORT_TEXT == "Aborted the Operation using CTRL+D"
ABORT_TEXT_EXPECTED == "Aborted the Operation using CTRL + D"


(***************************************************************************)
(* The state of one run of process_operation.                              *)
(***************************************************************************)
VARIABLES
    operation,            \* the OMOperation given (never written by the run)
    argument_parameters,  \* the argument OMParameterList given
    skip_looping,         \* the skip_looping flag given
    actions,              \* copy.deepcopy(operation.actions); parameters are mutated
    action_index,         \* state.loop_state.action_index (the cursor)
    loop_stack,           \* state.loop_state.loop_stack
    loop_starts,          \* state.loop_state.loop_starts, NoIndex where no entry
    extra_parameters,     \* state.extra_parameters (the accumulated scope)
    parameter_history,    \* state.parameter_history
    api_result_history,   \* state.api_result_history
    action_history,       \* state.action_history
    result_object,        \* the local result_object
    failed_processing,    \* the local failed_processing
    command,              \* the command returned
    pc,                   \* where the run stands
    is_repeated,          \* the local is_repeated of the current iteration
    param_index,          \* position of process_parameters in action.parameters
    attempts,             \* inputs read by handle_user_input for this parameter
    acks,                 \* "Press enter to continue" prompts still to show in the try block
    repeats,              \* backward jumps and repeats so far (bounded by MaxRepeats)
    log,                  \* what happened so far: dispatches, prompts, answers, end-of-input
    abort,                \* why the run aborted, "" while it has not
    resolved,             \* how each parameter of the current action got its value
    arguments,            \* the name=value arguments verify_arguments is given
    is_invalid            \* the local is_invalid of verify_arguments

\* verify_arguments runs before process_operation and is not touched by it
verification == <<arguments, is_invalid>>
inputs == <<operation, argument_parameters, skip_looping, verification>>
loop_state == <<action_index, loop_stack, loop_starts>>
histories == <<parameter_history, api_result_history, action_history>>
locals == <<is_repeated, param_index, attempts, acks>>
vars == <<operation, argument_parameters, skip_looping, actions, action_index,
          loop_stack, loop_starts, extra_parameters, parameter_history,
          api_result_history, action_history, result_object, failed_processing,
          command, pc, is_repeated, param_index, attempts, acks, repeats, log,
          abort, resolved, arguments, is_invalid>>

\* a dict of arguments is a function from the names given to their texts
NoArguments == [name \in {} |-> ""]

Event(e, i) == [e |-> e, i |-> i]

\* the command: None, or the operation id and the name=value parts after it
NoCommand == [null |-> TRUE, operation_id |-> "", parts |-> <<>>]

RECURSIVE CommandParts(_, _)
CommandParts(prepared_parameters, k) ==
    IF k > Len(prepared_parameters) THEN <<>>
    ELSE LET om_parameter == prepared_parameters[k]
             value == IF om_parameter.type = "STRING"
                      THEN "\"" \o PyStr(om_parameter.value) \o "\""
                      ELSE PyStr(om_parameter.value)
         IN (IF om_parameter.command_parameter
             THEN <<[name |-> om_parameter.name, value |-> value]>> ELSE <<>>)
            \o CommandParts(prepared_parameters, k + 1)

\* generate_command: the prefix and the -c/-t/-m options are fixed text
\* a slip: the command_parameter flag is not looked at
generate_command_Unflagged(operation_id, prepared_parameters) ==
    [null |-> FALSE, operation_id |-> operation_id,
     parts |-> [k \in 1..Len(prepared_parameters) |->
                  [name |-> prepared_parameters[k].name,
                   value |-> PyStr(prepared_parameters[k].value)]]]

generate_command(operation_id, prepared_parameters) ==
    [null |-> FALSE, operation_id |-> operation_id,
     parts |-> CommandParts(prepared_parameters, 1)]

LoopNumbers(op) == {NoLoop} \cup {op.actions[i].loop_number : i \in 1..Len(op.actions)}

Init ==
    /\ \E sc \in Scenarios :
        /\ operation = sc.operation
        /\ argument_parameters = sc.argument_parameters
        /\ skip_looping = sc.skip_looping
    /\ actions = operation.actions
    /\ action_index = 0
    /\ loop_stack = <<>>
    /\ loop_starts = [n \in LoopNumbers(operation) |-> NoIndex]
    /\ extra_parameters =
          <<[OMParameter("operation_id") EXCEPT !.value = Str(operation.operation_id),
                                                !.action_index = -1]>>
    /\ parameter_history = <<>>
    /\ api_result_history = <<>>
    /\ action_history = {}
    /\ result_object = ResultObject(TRUE, "", NoResponse, <<>>)
    /\ failed_processing = FALSE
    /\ command = NoCommand
    /\ pc = "top"
    /\ is_repeated = FALSE
    /\ param_index = 0
    /\ attempts = 0
    /\ acks = 0
    /\ repeats = 0
    /\ log = <<>>
    /\ abort = ""
    /\ resolved = <<>>
    /\ arguments = NoArguments
    /\ is_invalid = FALSE

\* a slip: the run works on operation.actions itself
SharesActions_NoCopy == TRUE

\* line 97, actions = copy.deepcopy(operation.actions): the list the run writes to
\* shares nothing with the operation it was given
SharesActions == FALSE

\* the operation given, after the run has written new_actions to its own list
OperationAfter(new_actions) ==
    IF SharesActions THEN [operation EXCEPT !.actions = new_actions] ELSE operation

\* the action the cursor is on
action == actions[action_index + 1]

\* an iteration of the while loop starts: the cursor is inside the action list
AtAction == pc = "top" /\ action_index # NoIndex /\ action_index < Len(actions)

\* the iteration got past the skip conditions
NotSkipped == AtAction /\ should_skip_action(action, extra_parameters) = "False"

\* a slip: the skip_looping shortcut is not taken
Looping_Always == NotSkipped

\* process_looping is past its skip_looping shortcut
Looping == NotSkipped /\ ~(skip_looping /\ action.type \in {"LOOP_START", "LOOP_END"})

\* a slip: pop_loop_stack leaves the stack as it is
pop_loop_stack_Keeps(stack) == stack

\* LoopState.peek_loop_stack / pop_loop_stack
peek_loop_stack(stack) == IF stack = <<>> THEN NoLoop ELSE stack[Len(stack)]
pop_loop_stack(stack) == IF stack = <<>> THEN stack ELSE SubSeq(stack, 1, Len(stack) - 1)

\* failed_processing = True; break; the code after the loop returns without a command
Break_Generates ==
    /\ failed_processing' = FALSE
    /\ command' = generate_command(operation.operation_id, parameter_history)
    /\ pc' = "returned"

Break ==
    /\ failed_processing' = TRUE
    /\ command' = NoCommand
    /\ pc' = "returned"

\* the except EOFError handler up to its prompt
CatchEOFError ==
    /\ result_object' = ResultObject(FALSE, "Aborted the Operation using CTRL+D",
                                     NoResponse, <<>>)
    /\ pc' = "ack_handler"
    /\ abort' = IF abort = "" THEN "user_abort" ELSE abort

\* a slip: the exception is noted and the loop goes on with the next iteration
CatchException_Resumes ==
    /\ pc' = "top"
    /\ abort' = "exception"

\* the except Exception handler up to its prompt
CatchException ==
    /\ pc' = "ack_handler"
    /\ abort' = "exception"


(***************************************************************************)
(* process_operation, the head of an iteration (lines 114-144) together    *)
(* with process_looping (lines 372-467).                                   *)
(***************************************************************************)

\* while condition false: the loop ends without a break, the command is generated
\* and shown, and the final "Press enter to continue" prompt is issued
EndOfActions ==
    /\ pc = "top" /\ action_index # NoIndex /\ action_index >= Len(actions)
    /\ command' = generate_command(operation.operation_id, parameter_history)
    /\ pc' = "final_prompt"
    /\ UNCHANGED <<inputs, actions, loop_state, extra_parameters, histories,
                   result_object, failed_processing, locals, repeats, log, abort,
                   resolved>>

\* the cursor is None (a jump to a loop start that was never recorded): the while
\* condition None < len(actions) raises TypeError outside the try block
CursorUndefined ==
    /\ pc = "top" /\ action_index = NoIndex
    /\ pc' = "raised"
    /\ abort' = "crash"
    /\ UNCHANGED <<inputs, actions, loop_state, extra_parameters, histories,
                   result_object, failed_processing, command, locals, repeats, log,
                   resolved>>

\* a slip: skipping clears the repeat_loop flag, as the loop markers do
SkipAction_ClearsFlag ==
    /\ AtAction /\ should_skip_action(action, extra_parameters) = "True"
    /\ action_index' = action_index + 1
    /\ result_object' = [result_object EXCEPT !.repeat_loop = "None"]
    /\ UNCHANGED <<inputs, actions, loop_stack, loop_starts, extra_parameters,
                   histories, failed_processing, command, pc, locals, repeats, log,
                   abort, resolved>>

\* a slip: a skipped action takes the action after it along
SkipAction_Twice ==
    /\ AtAction /\ should_skip_action(action, extra_parameters) = "True"
    /\ action_index' = action_index + 2
    /\ UNCHANGED <<inputs, actions, loop_stack, loop_starts, extra_parameters,
                   histories, result_object, failed_processing, command, pc, locals,
                   repeats, log, abort, resolved>>

\* should_skip_action is true: advance the cursor, continue
SkipAction ==
    /\ AtAction /\ should_skip_action(action, extra_parameters) = "True"
    /\ action_index' = action_index + 1
    /\ UNCHANGED <<inputs, actions, loop_stack, loop_starts, extra_parameters,
                   histories, result_object, failed_processing, command, pc, locals,
                   repeats, log, abort, resolved>>

\* evaluating a skip condition raises (json.loads of a value that is no str)
SkipConditionRaises ==
    /\ AtAction /\ should_skip_action(action, extra_parameters) = "raise"
    /\ CatchException
    /\ UNCHANGED <<inputs, actions, loop_state, extra_parameters, histories,
                   result_object, failed_processing, command, locals, repeats, log,
                   resolved>>

\* process_looping, skip_looping set and the action is a loop marker
LoopMarkerSkipped ==
    /\ NotSkipped /\ skip_looping /\ action.type \in {"LOOP_START", "LOOP_END"}
    /\ action_index' = action_index + 1
    /\ result_object' = [result_object EXCEPT !.repeat_loop = "None"]
    /\ UNCHANGED <<inputs, actions, loop_stack, loop_starts, extra_parameters,
                   histories, failed_processing, command, pc, locals, repeats, log,
                   abort, resolved>>

\* repeat_loop is not None and the action has no loop_number: ValueError
RepeatLoopNoNumber ==
    /\ Looping /\ result_object.repeat_loop # "None" /\ action.loop_number = NoLoop
    /\ CatchException
    /\ UNCHANGED <<inputs, actions, loop_state, extra_parameters, histories,
                   result_object, failed_processing, command, locals, repeats, log,
                   resolved>>

\* a slip: the index recorded for the loop is the one of its LOOP_END
get_loop_start_AtEnd(loop_number) == action_index

\* the index a repeat jumps to: loop_state.get_loop_start(action.loop_number)
get_loop_start(loop_number) == loop_starts[loop_number]

\* repeat_loop is True: jump back to the start of the loop, no prompt
RepeatLoopTrue ==
    /\ Looping /\ result_object.repeat_loop = "True" /\ action.loop_number # NoLoop
    /\ repeats < MaxRepeats
    /\ action_index' = get_loop_start(action.loop_number)
    /\ result_object' = [result_object EXCEPT !.repeat_loop = "None"]
    /\ repeats' = repeats + 1
    /\ log' = Append(log, Event("repeat_loop", action_index))
    /\ UNCHANGED <<inputs, actions, loop_stack, loop_starts, extra_parameters,
                   histories, failed_processing, command, pc, locals, abort, resolved>>

\* repeat_loop is False: pop the loop and go on, no prompt
RepeatLoopFalse ==
    /\ Looping /\ result_object.repeat_loop = "False" /\ action.loop_number # NoLoop
    /\ loop_stack' = pop_loop_stack(loop_stack)
    /\ action_index' = action_index + 1
    /\ result_object' = [result_object EXCEPT !.repeat_loop = "None"]
    /\ UNCHANGED <<inputs, actions, loop_starts, extra_parameters, histories,
                   failed_processing, command, pc, locals, repeats, log, abort,
                   resolved>>

\* a slip: LOOP_START pushes without looking at the stack
PushIfNew_Always(stack, loop_number) == Append(stack, loop_number)

\* the loop stack after LOOP_START(loop_number)
PushIfNew(stack, loop_number) ==
    IF \E i \in 1..Len(stack) : stack[i] = loop_number THEN stack
    ELSE Append(stack, loop_number)

\* a slip: LOOP_START records its index also when its number is on the stack
LoopStart_Rerecords ==
    /\ Looping /\ result_object.repeat_loop = "None" /\ action.type = "LOOP_START"
    /\ loop_starts' = [loop_starts EXCEPT ![action.loop_number] = action_index]
    /\ loop_stack' = PushIfNew(loop_stack, action.loop_number)
    /\ action_index' = action_index + 1
    /\ UNCHANGED <<inputs, actions, extra_parameters, histories, result_object,
                   failed_processing, command, pc, locals, repeats, log, abort,
                   resolved>>

\* a slip: LOOP_START pushes its number but does not record its index
LoopStart_NoRecord ==
    /\ Looping /\ result_object.repeat_loop = "None" /\ action.type = "LOOP_START"
    /\ loop_stack' = PushIfNew(loop_stack, action.loop_number)
    /\ action_index' = action_index + 1
    /\ UNCHANGED <<inputs, actions, loop_starts, extra_parameters, histories,
                   result_object, failed_processing, command, pc, locals, repeats,
                   log, abort, resolved>>

LoopStart ==
    /\ Looping /\ result_object.repeat_loop = "None" /\ action.type = "LOOP_START"
    /\ loop_starts' =
          IF \E i \in 1..Len(loop_stack) : loop_stack[i] = action.loop_number
          THEN loop_starts
          ELSE [loop_starts EXCEPT ![action.loop_number] = action_index]
    /\ loop_stack' = PushIfNew(loop_stack, action.loop_number)
    /\ action_index' = action_index + 1
    /\ UNCHANGED <<inputs, actions, extra_parameters, histories, result_object,
                   failed_processing, command, pc, locals, repeats, log, abort,
                   resolved>>

\* a slip: LOOP_END(n) is accepted when n is anywhere on the stack
IsCorrectLoopEnd_Anywhere(stack, loop_number) ==
    \E i \in 1..Len(stack) : stack[i] = loop_number

\* LOOP_END(n) is the correct loop end when n is on top of the stack
IsCorrectLoopEnd(stack, loop_number) == peek_loop_stack(stack) = loop_number

\* LOOP_END with the matching loop on top of the stack: the repeat prompt is shown
LoopEndPrompt ==
    /\ Looping /\ result_object.repeat_loop = "None" /\ action.type = "LOOP_END"
    /\ IsCorrectLoopEnd(loop_stack, action.loop_number)
    /\ pc' = "loop_prompt"
    /\ log' = Append(log, Event("loop_prompt", action_index))
    /\ UNCHANGED <<inputs, actions, loop_state, extra_parameters, histories,
                   result_object, failed_processing, command, locals, repeats, abort,
                   resolved>>

\* LOOP_END without the matching loop on top: "Loop end without matching start",
\* a prompt in process_looping, "break", and the prompt of line 143
LoopEndMismatch ==
    /\ Looping /\ result_object.repeat_loop = "None" /\ action.type = "LOOP_END"
    /\ ~IsCorrectLoopEnd(loop_stack, action.loop_number)
    /\ pc' = "ack_try"
    /\ acks' = 2
    /\ abort' = "loop_mismatch"
    /\ UNCHANGED <<inputs, actions, loop_state, extra_parameters, histories,
                   result_object, failed_processing, command, is_repeated,
                   param_index, attempts, repeats, log, resolved>>

\* the answer to "Do you want to repeat the loop ... (y/n)"
LoopRepeatAnswer ==
    /\ pc = "loop_prompt"
    /\ \E user_input \in YesNoInputs :
        CASE user_input = EOF ->
                /\ CatchEOFError
                /\ log' = Append(log, Event("eof", action_index))
                /\ UNCHANGED <<loop_state, repeats>>
          [] user_input # EOF /\ Lower(user_input) = "y" ->
                /\ repeats < MaxRepeats
                /\ action_index' = get_loop_start(action.loop_number)
                /\ repeats' = repeats + 1
                /\ log' = Append(log, Event("yes", action_index))
                /\ pc' = "top"
                /\ result_object' = [result_object EXCEPT !.repeat_loop = "None"]
                /\ UNCHANGED <<loop_stack, loop_starts, abort>>
          [] user_input # EOF /\ Lower(user_input) = "n" ->
                /\ loop_stack' = pop_loop_stack(loop_stack)
                /\ action_index' = action_index + 1
                /\ log' = Append(log, Event("no", action_index))
                /\ pc' = "top"
                /\ result_object' = [result_object EXCEPT !.repeat_loop = "None"]
                /\ UNCHANGED <<loop_starts, repeats, abort>>
          [] OTHER ->
                \* "Invalid input, please enter 'y' or 'n'": the prompt is shown again
                UNCHANGED <<loop_state, repeats, log, pc, result_object, abort>>
    /\ UNCHANGED <<inputs, actions, extra_parameters, histories, failed_processing,
                   command, locals, resolved>>

\* neither skipped nor a loop step: is_repeated is read and the parameters are processed
BeginAction ==
    /\ Looping /\ result_object.repeat_loop = "None"
    /\ action.type \notin {"LOOP_START", "LOOP_END"}
    /\ is_repeated' = (action.name \in action_history)
    /\ resolved' = <<>>
    /\ IF has_items(action.parameters)
       THEN pc' = "params" /\ param_index' = 1
       ELSE pc' = "dispatch" /\ param_index' = 0
    /\ attempts' = 0
    /\ UNCHANGED <<inputs, actions, loop_state, extra_parameters, histories,
                   result_object, failed_processing, command, acks, repeats, log,
                   abort>>


(***************************************************************************)
(* process_parameters (parameter_processing.py, lines 200-323), one        *)
(* declared parameter per step, and the prompt of handle_user_input.       *)
(***************************************************************************)

\* A text with {{token}} placeholders is read as its pieces: literal text and
\* tokens.  property_value.split("{{") and ph.split("}}")[0] are tabulated on the
\* texts the modelled operations declare; any other text has no "{{".
Literal(text) == [token |-> FALSE, text |-> text]
Token(name) == [token |-> TRUE, text |-> name]

Pieces(text) ==
    CASE text = "{{p}}" -> <<Token("p")>>
      [] text = "{{p}}-{{q}}" -> <<Token("p"), Literal("-"), Token("q")>>
      [] text = "{{missing}}/{{u}}" -> <<Token("missing"), Literal("/"), Token("u")>>
      [] OTHER -> <<Literal(text)>>

\* the text that the pieces spell
RECURSIVE Spell(_, _)
Spell(pieces, k) ==
    IF k > Len(pieces) THEN ""
    ELSE (IF pieces[k].token THEN "{{" \o pieces[k].text \o "}}" ELSE pieces[k].text)
            \o Spell(pieces, k + 1)

\* the list placeholders: the token names of a text, in their order
RECURSIVE TokensFrom(_, _)
TokensFrom(pieces, k) ==
    IF k > Len(pieces) THEN <<>>
    ELSE (IF pieces[k].token THEN <<pieces[k].text>> ELSE <<>>)
            \o TokensFrom(pieces, k + 1)

Placeholders(text) == TokensFrom(Pieces(text), 1)

\* text.replace("{{placeholder}}", new): every occurrence of the token
StrReplace(text, placeholder, new) ==
    LET pieces == Pieces(text)
    IN Spell([k \in 1..Len(pieces) |->
                IF pieces[k].token /\ pieces[k].text = placeholder
                THEN Literal(new) ELSE pieces[k]], 1)

\* the search of one placeholder: the first parameter of that name in the first
\* of the lists that has one
\* a slip: every placeholder is found, with an empty text as its value
FindPlaceholder_Always(placeholder, parameter_lists, k) ==
    [found |-> TRUE, value |-> Str("")]

RECURSIVE FindPlaceholder(_, _, _)
FindPlaceholder(placeholder, parameter_lists, k) ==
    IF k > Len(parameter_lists) THEN [found |-> FALSE, value |-> None]
    ELSE IF IndexOfName(parameter_lists[k], placeholder) > 0
    THEN [found |-> TRUE,
          value |-> parameter_lists[k][IndexOfName(parameter_lists[k], placeholder)].value]
    ELSE FindPlaceholder(placeholder, parameter_lists, k + 1)

\* the for loop over the placeholders of one property: each replacement is made
\* in property_value, the text the property had at the start, and is stored
\* in the copy when it differs from that text
RECURSIVE ReplaceEach(_, _, _, _, _)
ReplaceEach(property_value, current, placeholders, k, parameter_lists) ==
    IF k > Len(placeholders) THEN current
    ELSE LET hit == FindPlaceholder(placeholders[k], parameter_lists, 1)
             new_value == StrReplace(property_value, placeholders[k], PyStr(hit.value))
         IN ReplaceEach(property_value,
                        IF hit.found /\ hit.value # None /\ new_value # property_value
                        THEN new_value ELSE current,
                        placeholders, k + 1, parameter_lists)

\* one property of the copy after the loop
ReplaceProperty(property_value, parameter_lists) ==
    IF ~Truthy(property_value) \/ property_value.t # "str" THEN property_value
    ELSE Str(ReplaceEach(property_value.v, property_value.v,
                         Placeholders(property_value.v), 1, parameter_lists))

\* replace_placeholders: the deep copy with the placeholders of its properties
\* replaced (custom_text only shapes the prompt text and is not modelled)
replace_placeholders(om_parameter, om_parameters, argument_params, extra_params) ==
    LET parameter_lists == <<om_parameters, argument_params, extra_params>>
    IN [om_parameter EXCEPT
          !.value = ReplaceProperty(@, parameter_lists),
          !.custom_input_name = ReplaceProperty(@, parameter_lists),
          !.default_value = ReplaceProperty(@, parameter_lists),
          !.preset_value = ReplaceProperty(@, parameter_lists)]

\* find_and_update_parameter: the parameter with the value (and the command flag)
\* of the one found in the list
find_and_update_parameter(om_parameter, parameters, input_name, index) ==
    LET found_om_parameter == parameters[get_om_parameter(parameters, input_name, index)]
    IN [om_parameter EXCEPT
          !.value = found_om_parameter.value,
          !.command_parameter = IF found_om_parameter.command_parameter THEN TRUE ELSE @]

\* the guards of check_for_provided_parameters
ArgumentsApply(om_parameter, repeated, skip) ==
    skip \/ ~om_parameter.non_stick \/ ~repeated

\* the second guard without its non-stick exception
ExtraApply_Always(om_parameter, repeated, skip) == TRUE

ExtraApply(om_parameter, repeated, skip) ==
    ~om_parameter.non_stick \/ ~repeated

\* check_for_provided_parameters: the source that provides the value ("" when
\* none does) and the parameter afterwards
check_for_provided_parameters(om_parameter, input_name, argument_params, extra_params, index, repeated, skip) ==
    IF /\ has_items(argument_params)
       /\ ArgumentsApply(om_parameter, repeated, skip)
       /\ get_om_parameter(argument_params, input_name, index) > 0
    THEN [source |-> "argument",
          parameter |-> find_and_update_parameter(om_parameter, argument_params,
                                                  input_name, index)]
    ELSE IF /\ has_items(extra_params)
            /\ ExtraApply(om_parameter, repeated, skip)
            /\ get_om_parameter(extra_params, input_name, index) > 0
    THEN [source |-> "extra",
          parameter |-> find_and_update_parameter(om_parameter, extra_params,
                                                  input_name, index)]
    ELSE [source |-> "", parameter |-> om_parameter]

\* om_parameter.action_index = om_parameter.action_index or action_index
WithActionIndex(om_parameter, index) ==
    [om_parameter EXCEPT !.action_index = IF @ \in {NoIndex, 0} THEN index ELSE @]

\* the declared parameter process_parameters is at, and its placeholder copy
om_parameter == action.parameters[param_index]
om_parameter_copy ==
    replace_placeholders(WithActionIndex(om_parameter, action_index), action.parameters,
                         argument_parameters, extra_parameters)
input_name ==
    IF Truthy(om_parameter_copy.custom_input_name)
    THEN om_parameter_copy.custom_input_name.v ELSE om_parameter.name

\* where a parameter gets its value without a prompt: "argument", "extra",
\* "preset", "output" (no value, no prompt), or "" when the user must be asked
ValueSource_PresetFirst(parameter, copy, provided) ==
    IF copy.preset_value # None THEN "preset"
    ELSE IF provided.source # "" THEN provided.source
    ELSE IF parameter.override_output_parameter_name THEN "output"
    ELSE ""

ValueSource(parameter, copy, provided) ==
    IF provided.source # "" THEN provided.source
    ELSE IF copy.preset_value # None THEN "preset"
    ELSE IF parameter.override_output_parameter_name THEN "output"
    ELSE ""

Resolution(name, source, value) == [name |-> name, source |-> source, value |-> value]

\* the for loop goes to the next declared parameter, or process_parameters
\* returns success and the action is ready for dispatch
NextParameter ==
    IF param_index < Len(action.parameters)
    THEN pc' = "params" /\ param_index' = param_index + 1
    ELSE pc' = "dispatch" /\ param_index' = 0

\* a slip: the failure of process_parameters is recorded but the action is dispatched
ParametersFailed_Dispatches(text) ==
    /\ pc' = "dispatch"
    /\ acks' = 0
    /\ abort' = "parameter_failure"

\* process_parameters returned a failure with this text: lines 164-182
ParametersFailed(text) ==
    /\ pc' = "ack_try"
    /\ acks' = 1
    /\ abort' = IF text = ABORT_TEXT_EXPECTED THEN "user_abort" ELSE "parameter_failure"

\* one declared parameter, up to its prompt
ResolveParameter ==
    /\ pc = "params"
    /\ IF om_parameter.name = "operation_id"
       THEN /\ NextParameter
            /\ UNCHANGED <<actions, resolved, attempts>>
       ELSE LET indexed == WithActionIndex(om_parameter, action_index)
                provided == check_for_provided_parameters(
                                indexed, input_name, argument_parameters,
                                extra_parameters, action_index, is_repeated, skip_looping)
                source == ValueSource(indexed, om_parameter_copy, provided)
                after == CASE source \in {"argument", "extra"} -> provided.parameter
                           [] source = "preset" ->
                                [indexed EXCEPT !.value = om_parameter_copy.preset_value]
                           [] OTHER -> indexed
            IN /\ actions' = [actions EXCEPT
                                ![action_index + 1].parameters[param_index] = after]
               /\ IF source = ""
                  THEN /\ pc' = "value_prompt"
                       /\ attempts' = 0
                       /\ UNCHANGED <<param_index, resolved>>
                  ELSE /\ NextParameter
                       /\ resolved' = Append(resolved,
                                             Resolution(indexed.name, source, after.value))
                       /\ UNCHANGED attempts
    /\ operation' = OperationAfter(actions')
    /\ UNCHANGED <<argument_parameters, skip_looping, verification, loop_state,
                   extra_parameters, histories, result_object, failed_processing,
                   command, is_repeated, acks, repeats, log, abort>>

\* Screen().input(value_prompt_text) or default_value or ""
EnteredText(typed, default_value) ==
    IF typed # "" THEN typed
    ELSE IF Truthy(default_value) THEN default_value.v ELSE ""

\* the user answers the prompt for the value of a parameter
ValuePrompt ==
    /\ pc = "value_prompt"
    /\ \E typed \in ValueInputs :
        IF typed = EOF
        THEN \* EOFError, caught by process_parameters
             /\ ParametersFailed(ABORT_TEXT)
             /\ log' = Append(log, Event("eof", action_index))
             /\ UNCHANGED <<actions, param_index, attempts, resolved>>
        ELSE LET checked == validate_and_convert_parameter_value(
                                EnteredText(typed, om_parameter_copy.default_value),
                                om_parameter.type)
             IN IF checked[1]
                THEN /\ actions' = [actions EXCEPT
                          ![action_index + 1].parameters[param_index].value = checked[2]]
                     /\ resolved' = Append(resolved,
                                       Resolution(om_parameter.name, "prompt", checked[2]))
                     /\ NextParameter
                     /\ attempts' = 0
                     /\ UNCHANGED <<acks, abort, log>>
                ELSE IF attempts + 1 < MaxPromptAttempts
                THEN /\ attempts' = attempts + 1
                     /\ UNCHANGED <<actions, pc, param_index, resolved, acks, abort,
                                    log>>
                ELSE \* RecursionError, caught by process_parameters
                     /\ ParametersFailed("An error occurred while processing the parameters")
                     /\ attempts' = attempts + 1
                     /\ UNCHANGED <<actions, param_index, resolved, log>>
    /\ operation' = OperationAfter(actions')
    /\ UNCHANGED <<argument_parameters, skip_looping, verification, loop_state,
                   extra_parameters, histories, result_object, failed_processing,
                   command, is_repeated, repeats>>


(***************************************************************************)
(* process_operation lines 184-243 and process_action (lines 301-369).     *)
(***************************************************************************)

\* lines 185-191: the accumulated scope after the processed parameters are merged
\* into it (the processed parameters are a deep copy of action.parameters)
MergedScope == merge(extra_parameters, action.parameters)

\* lines 322-326: the Results the request adapter can return for the action
ApiOutcomes(name) == process_api_request(name, action_index)

\* the accumulated scope after the Result's output parameters are merged into it
WithOutputs(scope, result) ==
    IF has_items(result.parameters) THEN merge(scope, result.parameters) ELSE scope

\* the text process_action appends to the API-result history
ApiResultText(result) ==
    IF result.response.present /\ result.response.ok /\ result.response.text # ""
    THEN result.response.text ELSE result.text

\* lines 219-236: the Result stops the run
TerminatesRun_Always(result, failure_termination) == ~result.success

TerminatesRun(result, failure_termination) == ~result.success /\ failure_termination

\* lines 217-243 and 269: the history is updated, then the run stops on a
\* terminating failure or moves to the next action
PostAction(scope, result) ==
    /\ parameter_history' = merge(parameter_history, scope)
    /\ IF TerminatesRun(result, action.failure_termination)
       THEN /\ pc' = "ack_try"
            /\ acks' = 1
            /\ abort' = "failure_termination"
            /\ UNCHANGED action_index
       ELSE /\ pc' = "top"
            /\ action_index' = action_index + 1
            /\ UNCHANGED <<acks, abort>>

\* a slip: repeat_action is not looked at
AfterDispatch_NoPrompt(scope, result) ==
    /\ action_history' = action_history \cup {action.name}
    /\ PostAction(scope, result)

\* a slip: only an action that succeeded is recorded in the action history
AfterDispatch_OnlySuccess(scope, result) ==
    /\ action_history' = IF result.success THEN action_history \cup {action.name}
                         ELSE action_history
    /\ IF result.repeat_action
       THEN /\ pc' = "repeat_prompt"
            /\ UNCHANGED <<parameter_history, action_index, acks, abort>>
       ELSE PostAction(scope, result)

\* lines 201-216: the action is recorded; a Result with repeat_action asks the user
AfterDispatch(scope, result) ==
    /\ action_history' = action_history \cup {action.name}
    /\ IF result.repeat_action
       THEN /\ pc' = "repeat_prompt"
            /\ UNCHANGED <<parameter_history, action_index, acks, abort>>
       ELSE PostAction(scope, result)

\* a FUNCTION_CALL whose callable is registered returns a Result
DispatchFunction ==
    /\ pc = "dispatch" /\ action.type = "FUNCTION_CALL" /\ IsRegistered(action.name)
    /\ \E outcome \in ActionOutcomes(action.name) :
        /\ ~outcome.raises
        /\ result_object' = outcome.result
        /\ extra_parameters' = WithOutputs(MergedScope, outcome.result)
        /\ AfterDispatch(extra_parameters', outcome.result)
    /\ log' = Append(log, Event("dispatch", action_index))
    /\ UNCHANGED <<inputs, actions, loop_stack, loop_starts, api_result_history,
                   failed_processing, command, is_repeated, param_index, attempts,
                   repeats, resolved>>

\* a FUNCTION_CALL whose callable raises: caught by except Exception
DispatchRaises ==
    /\ pc = "dispatch" /\ action.type = "FUNCTION_CALL" /\ IsRegistered(action.name)
    /\ \E outcome \in ActionOutcomes(action.name) : outcome.raises
    /\ extra_parameters' = MergedScope
    /\ CatchException
    /\ log' = Append(log, Event("dispatch", action_index))
    /\ UNCHANGED <<inputs, actions, loop_state, histories, result_object,
                   failed_processing, command, locals, repeats, resolved>>

\* a FUNCTION_CALL whose name is not in the action packs: a prompt in
\* process_action, "break" with the result_object it was given, the prompt of line 198
DispatchUnknown ==
    /\ pc = "dispatch" /\ action.type = "FUNCTION_CALL" /\ ~IsRegistered(action.name)
    /\ extra_parameters' = MergedScope
    /\ pc' = "ack_try"
    /\ acks' = 2
    /\ abort' = "unknown_action"
    /\ UNCHANGED <<inputs, actions, loop_state, histories, result_object,
                   failed_processing, command, is_repeated, param_index, attempts,
                   repeats, log, resolved>>

\* an API_REQUEST: the request adapter returns a Result
DispatchApi ==
    /\ pc = "dispatch" /\ action.type = "API_REQUEST"
    /\ \E result \in ApiOutcomes(action.name) :
        /\ result_object' = result
        /\ extra_parameters' = WithOutputs(MergedScope, result)
        /\ api_result_history' = Append(api_result_history, ApiResultText(result))
        /\ AfterDispatch(extra_parameters', result)
    /\ log' = Append(log, Event("dispatch", action_index))
    /\ UNCHANGED <<inputs, actions, loop_stack, loop_starts, failed_processing,
                   command, is_repeated, param_index, attempts, repeats, resolved>>

\* the answer to "Do you want to repeat the action? (y/n)"
RepeatActionAnswer ==
    /\ pc = "repeat_prompt"
    /\ \E user_input \in YesNoInputs :
        CASE user_input = EOF ->
                /\ CatchEOFError
                /\ log' = Append(log, Event("eof", action_index))
                /\ UNCHANGED <<parameter_history, action_index, acks, repeats>>
          [] user_input # EOF /\ Lower(user_input) = "y" ->
                /\ repeats < MaxRepeats
                /\ repeats' = repeats + 1
                /\ log' = Append(log, Event("repeat_action", action_index))
                /\ pc' = "top"
                /\ UNCHANGED <<parameter_history, action_index, acks, abort,
                               result_object>>
          [] OTHER ->
                /\ PostAction(extra_parameters, result_object)
                /\ UNCHANGED <<result_object, repeats, log>>
    /\ UNCHANGED <<inputs, actions, loop_stack, loop_starts, extra_parameters,
                   api_result_history, action_history, failed_processing, command,
                   is_repeated, param_index, attempts, resolved>>

(***************************************************************************)
(* The "Press enter to continue" prompts and the end of the run.           *)
(***************************************************************************)

\* a prompt inside the try block, before a break: end-of-input there raises
\* EOFError into the except EOFError handler
AckInTry ==
    /\ pc = "ack_try"
    /\ \E user_input \in AckInputs :
        IF user_input = EOF
        THEN /\ CatchEOFError
             /\ UNCHANGED <<failed_processing, command, acks>>
        ELSE IF acks > 1
        THEN /\ acks' = acks - 1
             /\ UNCHANGED <<failed_processing, command, pc, result_object, abort>>
        ELSE /\ Break
             /\ acks' = 0
             /\ UNCHANGED <<result_object, abort>>
    /\ UNCHANGED <<inputs, actions, loop_state, extra_parameters, histories,
                   is_repeated, param_index, attempts, repeats, log, resolved>>

\* the prompt inside an except handler: end-of-input there leaves process_operation
\* as an EOFError
AckInHandler ==
    /\ pc = "ack_handler"
    /\ \E user_input \in AckInputs :
        IF user_input = EOF
        THEN /\ pc' = "raised"
             /\ UNCHANGED <<failed_processing, command>>
        ELSE Break
    /\ UNCHANGED <<inputs, actions, loop_state, extra_parameters, histories,
                   result_object, locals, repeats, log, abort, resolved>>

\* the prompt after the command was printed (line 276), then the return
FinalPrompt ==
    /\ pc = "final_prompt"
    /\ \E user_input \in AckInputs :
        pc' = IF user_input = EOF THEN "raised" ELSE "returned"
    /\ UNCHANGED <<inputs, actions, loop_state, extra_parameters, histories,
                   result_object, failed_processing, command, locals, repeats, log,
                   abort, resolved>>

Next ==
    \/ EndOfActions
    \/ CursorUndefined
    \/ SkipAction
    \/ SkipConditionRaises
    \/ LoopMarkerSkipped
    \/ RepeatLoopNoNumber
    \/ RepeatLoopTrue
    \/ RepeatLoopFalse
    \/ LoopStart
    \/ LoopEndPrompt
    \/ LoopEndMismatch
    \/ LoopRepeatAnswer
    \/ BeginAction
    \/ ResolveParameter
    \/ ValuePrompt
    \/ DispatchFunction
    \/ DispatchRaises
    \/ DispatchUnknown
    \/ DispatchApi
    \/ RepeatActionAnswer
    \/ AckInTry
    \/ AckInHandler
    \/ FinalPrompt

Spec == Init /\ [][Next]_vars


(***************************************************************************)
(* What the log says.                                                      *)
(***************************************************************************)
\* how often event e happened at action index i
Count(e, i) == Cardinality({k \in 1..Len(log) : log[k] = Event(e, i)})

\* how often the action at index i was dispatched
Dispatches(i) == Count("dispatch", i)

\* the run is at the top of the while loop with the cursor on an index
AtTop == pc = "top" /\ action_index # NoIndex

(***************************************************************************)
(* The static loop structure of an action list.                            *)
(***************************************************************************)
\* the loops opened and not yet closed by the first k actions, outermost first
RECURSIVE OpenLoops(_, _)
OpenLoops(acts, k) ==
    IF k = 0 THEN <<>>
    ELSE LET before == OpenLoops(acts, k - 1)
         IN CASE acts[k].type = "LOOP_START" -> Append(before, acts[k].loop_number)
              [] acts[k].type = "LOOP_END" -> pop_loop_stack(before)
              [] OTHER -> before

\* each LOOP_END(n) closes the most recently opened, still open LOOP_START(n),
\* and every LOOP_START is closed
ProperlyNested(acts) ==
    /\ \A k \in 1..Len(acts) :
          acts[k].type = "LOOP_END" =>
              /\ OpenLoops(acts, k - 1) # <<>>
              /\ peek_loop_stack(OpenLoops(acts, k - 1)) = acts[k].loop_number
    /\ OpenLoops(acts, Len(acts)) = <<>>

\* no LOOP_START(n) lies inside a loop that has the same number n
DistinctOpenLoops(acts) ==
    \A k \in 1..Len(acts) :
        LET open == OpenLoops(acts, k)
        IN \A i, j \in 1..Len(open) : open[i] = open[j] => i = j

\* no LOOP_START or LOOP_END has skip conditions
NoMarkerConditions(acts) ==
    \A k \in 1..Len(acts) :
        acts[k].type \in {"LOOP_START", "LOOP_END"} => acts[k].skip_if_conditions = <<>>

\* no action of the list can return a Result with repeat_loop set
NoRepeatLoopResults(acts) ==
    \A k \in 1..Len(acts) :
        \A outcome \in ActionOutcomes(acts[k].name) : outcome.result.repeat_loop = "None"

(***************************************************************************)
(* C1.  In LOOP_START(n), A, LOOP_END(n) without skip_looping, where A     *)
(* returns plain Results: after k answers 'y' and one 'n' at the loop      *)
(* prompt A has been dispatched exactly k+1 times, and the cursor is past  *)
(* LOOP_END(n) only once that 'n' was given, after the (k+1)-th dispatch.  *)
(***************************************************************************)
IsSingleLoop(acts) ==
    /\ Len(acts) = 3
    /\ acts[1].type = "LOOP_START" /\ acts[3].type = "LOOP_END"
    /\ acts[1].loop_number = acts[3].loop_number /\ acts[1].loop_number # NoLoop
    /\ acts[2].name = "act"

C1_LoopReplay ==
    (IsSingleLoop(operation.actions) /\ ~skip_looping) =>
        /\ Dispatches(1) <= Count("yes", 2) + 1
        /\ Count("no", 2) <= 1
        /\ Count("no", 2) = 1 => Dispatches(1) = Count("yes", 2) + 1
        /\ (AtTop /\ action_index > 2) <=> (AtTop /\ Count("no", 2) = 1)
        /\ Count("loop_prompt", 2) > Count("yes", 2) + Count("no", 2) =>
              Dispatches(1) = Count("yes", 2) + 1

C1_Witness ==
    /\ operation.operation_id = "loop1" /\ ~skip_looping
    /\ pc = "returned" /\ abort = ""
    /\ Count("yes", 2) = MaxRepeats /\ Count("no", 2) = 1
    /\ Dispatches(1) = MaxRepeats + 1

(***************************************************************************)
(* C2.  Without skip_looping and without a pending repeat_loop, a          *)
(* LOOP_END(n) that is processed while n is not on top of the loop stack   *)
(* aborts the run: from then on no loop prompt is shown, nothing is        *)
(* dispatched, the cursor stays and no command is generated.               *)
(***************************************************************************)
MismatchedLoopEnd ==
    /\ NotSkipped /\ ~skip_looping /\ result_object.repeat_loop = "None"
    /\ action.type = "LOOP_END" /\ action.loop_number # NoLoop
    /\ peek_loop_stack(loop_stack) # action.loop_number

C2_MismatchAborts ==
    [][/\ MismatchedLoopEnd => (abort' = "loop_mismatch" /\ log' = log)
       /\ abort = "loop_mismatch" =>
            /\ abort' = abort /\ log' = log /\ action_index' = action_index
            /\ command' = NoCommand
            /\ pc' \in {"ack_try", "ack_handler", "returned", "raised"}
            /\ pc' = "returned" => failed_processing']_vars

C2_Witness ==
    /\ abort = "loop_mismatch" /\ pc = "returned" /\ command = NoCommand
    /\ loop_stack # <<>> /\ actions[action_index + 1].type = "LOOP_END"
    /\ peek_loop_stack(loop_stack) # actions[action_index + 1].loop_number

(***************************************************************************)
(* C3.  As claimed: for properly nested markers, without skip_looping,     *)
(* marker conditions and repeat_loop Results, the loop-mismatch abort is   *)
(* never reached.  It is reached when a loop is nested in a loop of the    *)
(* same number.                                                            *)
(***************************************************************************)
NestedRun ==
    /\ ProperlyNested(operation.actions) /\ ~skip_looping
    /\ NoMarkerConditions(operation.actions) /\ NoRepeatLoopResults(operation.actions)

C3_Original == NestedRun => abort # "loop_mismatch"

(***************************************************************************)
(* C3 amended.  When moreover no LOOP_START(n) lies inside a loop numbered *)
(* n: the mismatch abort is never reached; whenever an iteration starts    *)
(* the loop stack holds exactly the loops that enclose the cursor (so an   *)
(* inner loop is pushed again on every replay of the outer body); and the  *)
(* stack is empty when the run completes.                                  *)
(***************************************************************************)
C3_NestedLoops ==
    (NestedRun /\ DistinctOpenLoops(operation.actions)) =>
        /\ abort # "loop_mismatch"
        /\ AtTop =>
              \/ loop_stack = OpenLoops(operation.actions, action_index)
              \/ /\ action_index < Len(actions) /\ action.type = "LOOP_START"
                 /\ loop_stack = OpenLoops(operation.actions, action_index + 1)
        /\ (pc \in {"final_prompt", "returned"} /\ abort = "") => loop_stack = <<>>

C3_Witness ==
    /\ operation.operation_id = "nested" /\ ~skip_looping
    /\ pc = "returned" /\ abort = "" /\ loop_stack = <<>>
    /\ Count("yes", 4) >= 1 /\ Dispatches(2) >= 2

(***************************************************************************)
(* Values held by name, and the steps of a dispatch.                       *)
(***************************************************************************)
Missing == [t |-> "missing", v |-> ""]

\* the value of the item named name in an OMParameterList, Missing when absent
ItemValue(parameters, name) ==
    IF IndexOfName(parameters, name) = 0 THEN Missing
    ELSE parameters[IndexOfName(parameters, name)].value

\* the values handle_user_input can return for a parameter
EnteredValues(parameter, default_value) ==
    {validate_and_convert_parameter_value(EnteredText(typed, default_value),
                                          parameter.type)[2] :
        typed \in {t \in ValueInputs \ {EOF} :
                      validate_and_convert_parameter_value(
                          EnteredText(t, default_value), parameter.type)[1]}}

\* the declared parameters of the current action that process_parameters resolves
Declared == {k \in 1..Len(action.parameters) : action.parameters[k].name # "operation_id"}
NonStick == {k \in Declared : action.parameters[k].non_stick}

\* the current action was dispatched before in this run and skip_looping is off
Replayed == is_repeated /\ ~skip_looping

\* this step merges the accumulated scope into the parameter history
HistoryUpdated ==
    /\ pc \in {"dispatch", "repeat_prompt"}
    /\ \/ pc' = "top" /\ action_index' = action_index + 1
       \/ abort = "" /\ abort' = "failure_termination"

\* the name=value part of the command for a parameter
CommandPart(parameter) == CommandParts(<<parameter>>, 1)[1]
InCommand(cmd, parameter) ==
    \E j \in 1..Len(cmd.parts) : cmd.parts[j] = CommandPart(parameter)

\* what a replayed non-stick parameter does after it was resolved: a value read at
\* the prompt is one the prompt can return; the dispatch merges the value into
\* the accumulated scope; the history gets it when the action is done; and a
\* generated command shows it
NonStickValueKept ==
    /\ (pc = "value_prompt" /\ Replayed /\ om_parameter.non_stick
           /\ pc' \in {"params", "dispatch"}) =>
          /\ actions'[action_index + 1].parameters[param_index].value
                \in EnteredValues(om_parameter, om_parameter_copy.default_value)
          /\ resolved'[Len(resolved')].source = "prompt"
    /\ (pc = "dispatch" /\ Replayed) =>
          \A k \in NonStick :
              ItemValue(extra_parameters', action.parameters[k].name)
                  = action.parameters[k].value
    /\ (HistoryUpdated /\ Replayed) =>
          \A k \in NonStick :
              ItemValue(parameter_history', action.parameters[k].name)
                  = action.parameters[k].value
    /\ (pc' = "returned" /\ ~command'.null /\ ~skip_looping) =>
          \A i \in 1..Len(actions) : \A k \in 1..Len(actions[i].parameters) :
              LET parameter == actions[i].parameters[k]
              IN (Dispatches(i - 1) >= 2 /\ parameter.non_stick
                     /\ parameter.name # "operation_id"
                     /\ parameter.command_parameter) =>
                    InCommand(command', parameter)

\* the step that resolves a replayed non-stick parameter
ResolvesNonStick ==
    /\ pc = "params" /\ Replayed
    /\ om_parameter.non_stick /\ om_parameter.name # "operation_id"

(***************************************************************************)
(* C4.  As claimed: on a repeated dispatch with skip_looping off a         *)
(* non-stick parameter gets its preset value if it has one, and otherwise  *)
(* the user is prompted; the entered value is then found in the scope, the *)
(* history and the command.  A non-stick parameter without a preset whose  *)
(* override_output_parameter_name is set is not prompted.                  *)
(***************************************************************************)
C4_Original ==
    [][/\ ResolvesNonStick =>
            IF om_parameter.preset_value # None
            THEN /\ pc' # "value_prompt"
                 /\ actions'[action_index + 1].parameters[param_index].value
                       = om_parameter.preset_value
            ELSE pc' = "value_prompt"
       /\ NonStickValueKept]_vars

(***************************************************************************)
(* C4 amended.  On a repeated dispatch with skip_looping off a non-stick   *)
(* parameter is never filled from the arguments or the accumulated scope:  *)
(* it gets its preset value if it has one; else, if its                    *)
(* override_output_parameter_name is set, it is not prompted and keeps the *)
(* value it holds; else the user is prompted, and the value entered (as    *)
(* converted to the parameter's type) is the one found afterwards in the   *)
(* accumulated scope, the parameter history and the generated command.     *)
(***************************************************************************)
C4_NonStickReplay ==
    [][/\ ResolvesNonStick =>
            IF om_parameter.preset_value # None
            THEN /\ pc' # "value_prompt"
                 /\ actions'[action_index + 1].parameters[param_index].value
                       = om_parameter.preset_value
            ELSE IF om_parameter.override_output_parameter_name
            THEN /\ pc' # "value_prompt"
                 /\ actions'[action_index + 1].parameters[param_index].value
                       = om_parameter.value
            ELSE pc' = "value_prompt"
       /\ NonStickValueKept]_vars

C4_Witness ==
    /\ operation.operation_id = "params" /\ ~skip_looping
    /\ argument_parameters # <<>>
    /\ pc = "returned" /\ ~command.null /\ Dispatches(2) >= 2
    /\ actions[3].parameters[1].non_stick
    /\ actions[3].parameters[1].preset_value = None
    /\ ~actions[3].parameters[1].override_output_parameter_name
    /\ resolved = <<Resolution("p", "prompt", Str("a"))>>
    /\ ItemValue(extra_parameters, "p") = Str("a")
    /\ ItemValue(parameter_history, "p") = Str("a")
    /\ InCommand(command, actions[3].parameters[1])

(***************************************************************************)
(* The priority chain of process_parameters, written down from its         *)
(* description: which source gives the parameter at hand its value, where  *)
(* scope_rule says whether the accumulated scope may be used.              *)
(***************************************************************************)
ChainSource(scope_rule) ==
    IF /\ IndexOfName(argument_parameters, om_parameter.name) > 0
       /\ (skip_looping \/ ~om_parameter.non_stick \/ ~is_repeated)
    THEN "argument"
    ELSE IF IndexOfName(extra_parameters, om_parameter.name) > 0 /\ scope_rule
    THEN "extra"
    ELSE IF om_parameter.preset_value # None THEN "preset"
    ELSE IF om_parameter.override_output_parameter_name THEN "output"
    ELSE "prompt"

\* the step that resolves a declared parameter follows the chain
FollowsChain(scope_rule) ==
    (pc = "params" /\ om_parameter.name # "operation_id") =>
        LET source == ChainSource(scope_rule)
            value_after == actions'[action_index + 1].parameters[param_index].value
        IN /\ (pc' = "value_prompt") <=> (source = "prompt")
           /\ source = "argument" =>
                 value_after = ItemValue(argument_parameters, om_parameter.name)
           /\ source = "extra" =>
                 value_after = ItemValue(extra_parameters, om_parameter.name)
           /\ source = "preset" => value_after = om_parameter_copy.preset_value
           /\ source \in {"output", "prompt"} => value_after = om_parameter.value
           /\ source # "prompt" => resolved'[Len(resolved')].source = source

(***************************************************************************)
(* C5.  As claimed: each declared parameter takes the first applicable of  *)
(* (1) the arguments, when skip_looping is set or the parameter is sticky  *)
(* or the action is not repeated, (2) the accumulated scope, (3) the       *)
(* preset, (4) nothing when override_output_parameter_name is set, (5) the *)
(* prompt.  Fails for a non-stick parameter of a repeated action, which    *)
(* does not take the value the accumulated scope holds.                    *)
(***************************************************************************)
C5_Original == [][FollowsChain(TRUE)]_vars

(***************************************************************************)
(* C5 amended.  Each declared parameter other than operation_id takes the  *)
(* first applicable of (1) the arguments, when skip_looping is set or the  *)
(* parameter is sticky or the action is not repeated, (2) the accumulated  *)
(* scope, when the parameter is sticky or the action is not repeated,      *)
(* (3) the preset, (4) nothing and no prompt when                          *)
(* override_output_parameter_name is set, (5) the prompt; a prompt is      *)
(* issued exactly when none of 1 to 4 applies.                             *)
(***************************************************************************)
C5_PriorityChain == [][FollowsChain(~om_parameter.non_stick \/ ~is_repeated)]_vars

C5_Witness ==
    /\ pc = "dispatch" /\ is_repeated /\ skip_looping
    /\ operation.operation_id = "params"
    /\ action.parameters[1].non_stick /\ action.parameters[1].preset_value # None
    /\ ItemValue(extra_parameters, "p") # Missing
    /\ resolved = <<Resolution("p", "argument", Str("arg"))>>

(***************************************************************************)
(* C6.  As claimed: a FUNCTION_CALL whose name is not in the action        *)
(* registry ends the run at that action: nothing is dispatched afterwards, *)
(* no command is generated, and the Result returned has success=false.     *)
(* The Result returned is the one of the action before (or the initial     *)
(* successful one), so success can be true.                                *)
(***************************************************************************)
C6_Original ==
    [][abort' = "unknown_action" =>
          /\ log' = log
          /\ command' = NoCommand
          /\ pc' = "returned" => ~result_object'.success]_vars

(***************************************************************************)
(* C7.  An action that is dispatched and returns success=false without     *)
(* repeat_action: with failure_termination the run aborts there, nothing   *)
(* is dispatched afterwards and no command is generated; without           *)
(* failure_termination the run goes on with the next action.               *)
(***************************************************************************)
ReturnsFailure ==
    /\ pc = "dispatch" /\ log' # log /\ pc' # "ack_handler"
    /\ ~result_object'.success /\ ~result_object'.repeat_action

C7_FailureTermination ==
    [][/\ ReturnsFailure =>
            IF action.failure_termination
            THEN abort' = "failure_termination" /\ action_index' = action_index
                 /\ pc' = "ack_try"
            ELSE abort' = "" /\ action_index' = action_index + 1 /\ pc' = "top"
       /\ abort = "failure_termination" =>
            /\ abort' = abort /\ log' = log /\ command' = NoCommand
            /\ pc' \in {"ack_try", "ack_handler", "returned", "raised"}]_vars

C7_Witness ==
    /\ operation.operation_id = "failure"
    /\ pc = "returned" /\ abort = "failure_termination" /\ command = NoCommand
    /\ action_index = 2 /\ ~result_object.success
    /\ api_result_history[1] = "404 | body"
    /\ Dispatches(0) = 1 /\ Dispatches(1) = 1 /\ Dispatches(2) = 1

(***************************************************************************)
(* C8.  As claimed: after end-of-input at a parameter prompt, the          *)
(* loop-repeat prompt or the repeat-action prompt nothing is dispatched,   *)
(* no command is generated and the Result returned has success=false and   *)
(* the abort text.  After end-of-input at a parameter prompt the Result    *)
(* returned is the one of the action before.                               *)
(***************************************************************************)
EndOfInputSeen == \E k \in 1..Len(log) : log[k].e = "eof"

C8_Original ==
    [][/\ EndOfInputSeen => log' = log
       /\ EndOfInputSeen' =>
            /\ command' = NoCommand
            /\ pc' = "returned" =>
                  /\ ~result_object'.success
                  /\ result_object'.text \in {ABORT_TEXT, ABORT_TEXT_EXPECTED}]_vars

(***************************************************************************)
(* C9.  As claimed: whatever the user types, end-of-input at any prompt    *)
(* included, and whatever an action body raises, process_operation         *)
(* returns: no exception reaches the caller.                               *)
(***************************************************************************)
C9_Original == pc # "raised"

(***************************************************************************)
(* C10.  process_operation returns a command if and only if the cursor     *)
(* reached the end of the action list without an abort; after every abort  *)
(* the command returned is None.                                           *)
(***************************************************************************)
C10_CommandIffCompleted ==
    pc = "returned" =>
        /\ ~command.null <=>
              /\ abort = "" /\ ~failed_processing
              /\ action_index # NoIndex /\ action_index >= Len(actions)
        /\ abort # "" => command = NoCommand
        /\ ~command.null =>
              command = generate_command(operation.operation_id, parameter_history)

C10_Witness ==
    /\ pc = "returned" /\ ~command.null /\ abort = ""
    /\ action_index = Len(actions) /\ command.parts # <<>>
    /\ Dispatches(2) >= 2

(***************************************************************************)
(* The two histories over a step.                                          *)
(***************************************************************************)
Names(parameters) == {parameters[k].name : k \in 1..Len(parameters)}

IsPrefix(s, t) == Len(s) <= Len(t) /\ SubSeq(t, 1, Len(s)) = s

\* no name leaves the parameter history; the API-result history is appended to
HistoriesGrow ==
    /\ Names(parameter_history) \subseteq Names(parameter_history')
    /\ IsPrefix(api_result_history, api_result_history')

\* the names the current action declares, and the names a Result outputs
DeclaredNames == {action.parameters[k].name : k \in 1..Len(action.parameters)}
OutputNames(result) == Names(result.parameters)

\* the entries of the parameter history outside the set names keep their value
KeepsEntries(names) ==
    \A k \in 1..Len(parameter_history) :
        parameter_history[k].name \notin names =>
            ItemValue(parameter_history', parameter_history[k].name)
                = parameter_history[k].value

(***************************************************************************)
(* C11.  As claimed: the parameter history never loses a name, the         *)
(* API-result history is only appended to, and a step that aborts the run  *)
(* (an action that raises or fails included) leaves every entry of the     *)
(* parameter history as earlier actions recorded it.  An action that       *)
(* returns a terminating failure is itself merged into the history, and    *)
(* replaces the entries of the names it declares.                          *)
(***************************************************************************)
C11_Original ==
    [][/\ HistoriesGrow
       /\ abort' # "" => KeepsEntries({})]_vars

(***************************************************************************)
(* C11 amended.  The parameter history never loses a name and the          *)
(* API-result history is only appended to.  A step that aborts the run     *)
(* because of end-of-input, a parameter failure, a loop mismatch, an       *)
(* unknown action or an exception changes neither history; an action that  *)
(* returns a terminating failure is recorded like a completed one: its     *)
(* API result is appended and only the entries of the names it declares    *)
(* or outputs change.  After the abort nothing changes any more.           *)
(***************************************************************************)
C11_HistoriesKept ==
    [][/\ HistoriesGrow
       /\ (abort' # "" /\ ~(abort = "" /\ abort' = "failure_termination")) =>
             UNCHANGED <<parameter_history, api_result_history>>
       /\ (abort = "" /\ abort' = "failure_termination") =>
             KeepsEntries(DeclaredNames \cup OutputNames(result_object'))]_vars

C11_Witness ==
    /\ operation.operation_id = "raising"
    /\ pc = "returned" /\ abort = "exception"
    /\ Dispatches(0) = 1 /\ Dispatches(1) = 1
    /\ Names(parameter_history) = {"operation_id"}

(***************************************************************************)
(* The command that a completed run returns.                               *)
(***************************************************************************)
Completed == pc = "returned" /\ ~command.null

\* the parameters of the accumulated scope flagged command_parameter
FlaggedNames ==
    {extra_parameters[k].name : k \in {i \in 1..Len(extra_parameters) :
                                          extra_parameters[i].command_parameter}}

\* each flagged parameter appears exactly once, with the value the accumulated
\* scope holds for it at the end, and every flagged parameter declared by a
\* dispatched action appears
CommandHoldsFlagged ==
    /\ \A i, j \in 1..Len(command.parts) :
          command.parts[i].name = command.parts[j].name => i = j
    /\ {command.parts[j].name : j \in 1..Len(command.parts)} = FlaggedNames
    /\ \A j \in 1..Len(command.parts) :
          command.parts[j] =
              CommandPart(extra_parameters[IndexOfName(extra_parameters,
                                                       command.parts[j].name)])
    /\ \A i \in 1..Len(actions) : \A k \in 1..Len(actions[i].parameters) :
          (/\ Dispatches(i - 1) >= 1
           /\ operation.actions[i].parameters[k].command_parameter
           /\ actions[i].parameters[k].name # "operation_id") =>
              actions[i].parameters[k].name \in FlaggedNames

\* the names the operation declares, over its actions in their order
RECURSIVE DeclaredSeq(_, _)
DeclaredSeq(acts, i) ==
    IF i = 0 THEN <<>>
    ELSE DeclaredSeq(acts, i - 1)
            \o [k \in 1..Len(acts[i].parameters) |-> acts[i].parameters[k].name]

\* the place of the first declaration of a name, 0 when it is not declared
DeclarationPosition(name) ==
    LET declared == DeclaredSeq(operation.actions, Len(operation.actions))
    IN IF \E j \in 1..Len(declared) : declared[j] = name
       THEN CHOOSE j \in 1..Len(declared) :
               /\ declared[j] = name
               /\ \A h \in 1..(j - 1) : declared[h] # name
       ELSE 0

ScannedProperties == {"value", "custom_input_name", "default_value", "preset_value"}

\* the three scopes in their priority order, for the parameter at hand
ScopeLists == <<action.parameters, argument_parameters, extra_parameters>>

\* the texts of the non-null values that the scopes hold for a name
TokenValues(name) ==
    UNION {{PyStr(ScopeLists[s][k].value) :
               k \in {j \in 1..Len(ScopeLists[s]) :
                         /\ ScopeLists[s][j].name = name
                         /\ ScopeLists[s][j].value # None}} : s \in 1..3}

\* the token names no parameter of any scope
NamesNoParameter(name) == \A s \in 1..3 : IndexOfName(ScopeLists[s], name) = 0

\* the parameter the token names, the first in the priority order, has no value
NamesNullParameter(name) ==
    \E s \in 1..3 :
        /\ IndexOfName(ScopeLists[s], name) > 0
        /\ \A r \in 1..(s - 1) : IndexOfName(ScopeLists[r], name) = 0
        /\ ScopeLists[s][IndexOfName(ScopeLists[s], name)].value = None

\* the texts that pieces can spell when the tokens in keep stay as they are, the
\* tokens in must are replaced by a value the scopes hold for them, and any
\* other token either stays or is replaced by such a value
RECURSIVE Spellings(_, _, _, _)
Spellings(pieces, k, keep, must) ==
    IF k > Len(pieces) THEN {""}
    ELSE LET piece == pieces[k]
             literal == "{{" \o piece.text \o "}}"
             heads == IF ~piece.token THEN {piece.text}
                      ELSE IF piece.text \in keep THEN {literal}
                      ELSE IF piece.text \in must THEN TokenValues(piece.text)
                      ELSE {literal} \cup TokenValues(piece.text)
         IN {h \o t : h \in heads, t \in Spellings(pieces, k + 1, keep, must)}

TokenSet(text) == {Placeholders(text)[k] : k \in 1..Len(Placeholders(text))}

\* the process_parameters step of a declared parameter, where its copy is made
MakesCopy == pc = "params" /\ om_parameter.name # "operation_id"

(***************************************************************************)
(* C13.  As claimed: when a text property holds several distinct tokens    *)
(* and each names a parameter with a non-null value in one of the scopes,  *)
(* every token is replaced in the copy.  Each replacement is made in the   *)
(* text the property had at the start, so only the last one is kept.       *)
(***************************************************************************)
C13_Original ==
    MakesCopy =>
        \A property \in ScannedProperties :
            LET property_value == om_parameter[property]
            IN (/\ property_value.t = "str"
                /\ Cardinality(TokenSet(property_value.v)) >= 2
                /\ \A name \in TokenSet(property_value.v) : TokenValues(name) # {}) =>
                   /\ om_parameter_copy[property].t = "str"
                   /\ om_parameter_copy[property].v
                         \in Spellings(Pieces(property_value.v), 1, {},
                                       TokenSet(property_value.v))

(***************************************************************************)
(* C14.  A token that names no parameter in any of the three scopes, or    *)
(* whose parameter has no value, stays in the property of the copy as its  *)
(* literal text; and making the copy changes neither the declared          *)
(* properties of the parameter nor the other declared parameters, the      *)
(* arguments or the accumulated scope.                                     *)
(***************************************************************************)
UnresolvedTokens(text) ==
    {name \in TokenSet(text) : NamesNoParameter(name) \/ NamesNullParameter(name)}

C14_UnresolvedKept ==
    [][MakesCopy =>
          /\ \A property \in ScannedProperties :
                LET property_value == om_parameter[property]
                IN property_value.t = "str" =>
                      /\ om_parameter_copy[property].t = "str"
                      /\ om_parameter_copy[property].v
                            \in Spellings(Pieces(property_value.v), 1,
                                          UnresolvedTokens(property_value.v), {})
          /\ \A property \in ScannedProperties \ {"value"} :
                actions'[action_index + 1].parameters[param_index][property]
                    = om_parameter[property]
          /\ \A k \in 1..Len(action.parameters) :
                k # param_index =>
                    actions'[action_index + 1].parameters[k] = action.parameters[k]
          /\ UNCHANGED <<argument_parameters, extra_parameters>>]_vars

C14_Witness ==
    /\ operation.operation_id = "tokens" /\ argument_parameters # <<>>
    /\ pc = "value_prompt" /\ om_parameter.name = "u"
    /\ om_parameter_copy.default_value = Str("{{missing}}/{{u}}")
    /\ action.parameters[1].value = Str("{{p}}")
    /\ action.parameters[2].value = Str("arg")

(***************************************************************************)
(* Conditions and groups to evaluate against the accumulated scope of the  *)
(* operation "skipping", whose parameter j is absent, null, text without   *)
(* the key, or JSON text with the status active or inactive.               *)
(***************************************************************************)
ConditionSamples ==
    {OMCondition(name, path, regex, fallback) :
        name \in {"j", "absent"}, path \in {"status", "other"},
        regex \in {"active", "^active$"}, fallback \in {"True", "False", "None"}}

\* the states in which the samples are evaluated
AtSkipCheck == operation.operation_id = "skipping" /\ pc = "top"

\* what the path matches in the value of the condition's parameter: nothing
\* when the parameter is absent or its value is not a text
MatchesOf(cond, om_parameters) ==
    LET value == ItemValue(om_parameters, cond.parameter_name)
    IN IF value.t = "str" THEN JsonPathFind(cond.jsonpath, value.v) ELSE <<>>

\* the result of a condition as described: true when the path matches and the
\* regex finds a match in one of the matched values, the fallback (false when
\* unset) when the path matches nothing, else false
ConditionHolds(cond, om_parameters) ==
    LET matches == MatchesOf(cond, om_parameters)
    IN IF matches = <<>> THEN cond.skip_if_path_not_found = "True"
       ELSE \E k \in 1..Len(matches) : ReSearch(cond.regex, matches[k])

(***************************************************************************)
(* C15.  As claimed: a condition evaluates to true exactly when its        *)
(* parameter is found, the path matches and the regex matches one of the   *)
(* matched values; to skip_if_path_not_found (false when unset) when the   *)
(* parameter is absent or the path matches nothing; and to false when the  *)
(* path matches but the regex does not.  With a parameter that is present  *)
(* with a null value the evaluation raises instead.                        *)
(***************************************************************************)
C15_Original ==
    AtSkipCheck =>
        \A cond \in ConditionSamples :
            LET result == ConditionEvaluate(cond, extra_parameters)
            IN /\ result \in {"True", "False", "None"}
               /\ (result = "True") <=> ConditionHolds(cond, extra_parameters)

(***************************************************************************)
(* C16.  An action is skipped if and only if it has at least one           *)
(* skip_if_conditions group and every group is true, an AND group being    *)
(* true when all its conditions evaluate to true and an OR group when at   *)
(* least one does; an action without groups is never skipped.  (When the   *)
(* evaluation of a condition raises, the action is not skipped either.)    *)
(***************************************************************************)
GroupSamples ==
    {[operator |-> op, conditions |-> conds] :
        op \in {"AND", "OR"},
        conds \in {<<c>> : c \in ConditionSamples}
                  \cup {<<OMCondition("j", "status", "active", "None"), c>> :
                           c \in ConditionSamples}
                  \cup {<<c, OMCondition("absent", "status", "active", "True")>> :
                           c \in ConditionSamples}}

GroupListSamples ==
    {<<>>} \cup {<<g>> : g \in GroupSamples}
           \cup {<<SkipIfActive[1], g>> : g \in GroupSamples}
           \cup {<<g, [operator |-> "OR",
                       conditions |-> <<OMCondition("j", "status", "active", "False"),
                                        OMCondition("absent", "other", "active", "True")>>]>> :
                    g \in GroupSamples}

\* no condition of the groups raises on these parameters
Evaluable(groups, om_parameters) ==
    \A g \in 1..Len(groups) : \A k \in 1..Len(groups[g].conditions) :
        ConditionEvaluate(groups[g].conditions[k], om_parameters) # "raise"

GroupIsTrue(group, om_parameters) ==
    LET true == {k \in 1..Len(group.conditions) :
                    ConditionEvaluate(group.conditions[k], om_parameters) = "True"}
    IN IF group.operator = "AND" THEN true = 1..Len(group.conditions) ELSE true # {}

C16_SkipRule ==
    [][/\ AtSkipCheck =>
            \A groups \in GroupListSamples :
                LET skip == should_skip_action([Act EXCEPT !.skip_if_conditions = groups],
                                               extra_parameters)
                IN /\ Evaluable(groups, extra_parameters) =>
                        ((skip = "True") <=>
                            /\ Len(groups) > 0
                            /\ \A g \in 1..Len(groups) :
                                  GroupIsTrue(groups[g], extra_parameters))
                   /\ skip = "True" =>
                        \A g \in 1..Len(groups) : GroupIsTrue(groups[g], extra_parameters)
       /\ AtAction =>
            LET advanced == /\ action_index' = action_index + 1 /\ pc' = "top"
                            /\ UNCHANGED <<log, loop_stack, loop_starts, extra_parameters,
                                           histories, result_object, abort>>
                marker == action.type \in {"LOOP_START", "LOOP_END"}
            IN /\ should_skip_action(action, extra_parameters) = "True" => advanced
               /\ (~marker /\ advanced) =>
                     should_skip_action(action, extra_parameters) = "True"
               /\ (~marker /\ action.skip_if_conditions = <<>>) => ~advanced]_vars

C16_Witness ==
    /\ operation.operation_id = "skipping" /\ pc = "top" /\ action_index = 2
    /\ ItemValue(extra_parameters, "j") = Str("{status:active}")
    /\ Dispatches(0) = 1 /\ Dispatches(1) = 0

(***************************************************************************)
(* OMParameterList.merge as a function of two lists.  A second             *)
(* specification: the lists self and other_list are drawn from the lists   *)
(* of at most MaxMergeLen parameters over two names and two values (so     *)
(* that either list may hold a name twice, with equal or different         *)
(* values), held in parameter_history (self) and extra_parameters          *)
(* (other_list) as in state.parameter_history.merge(state.extra_parameters)*)
(* and self.merge(other_list) is called twice.                             *)
(***************************************************************************)
MaxMergeLen == 3

MergeItems == {OutputParameter(name, Str(value)) : name \in {"a", "b"}, value \in {"1", "2"}}

MergeLists == UNION {[1..n -> MergeItems] : n \in 0..MaxMergeLen}

MergeInit ==
    /\ operation = [operation_id |-> "merge", actions |-> <<>>]
    /\ argument_parameters = <<>>
    /\ skip_looping = FALSE
    /\ actions = operation.actions
    /\ action_index = 0
    /\ loop_stack = <<>>
    /\ loop_starts = [n \in {} |-> NoIndex]
    /\ extra_parameters \in MergeLists
    /\ parameter_history \in MergeLists
    /\ api_result_history = <<>>
    /\ action_history = {}
    /\ result_object = ResultObject(TRUE, "", NoResponse, <<>>)
    /\ failed_processing = FALSE
    /\ command = NoCommand
    /\ pc = "merge"
    /\ is_repeated = FALSE
    /\ param_index = 0
    /\ attempts = 0
    /\ acks = 0
    /\ repeats = 0
    /\ log = <<>>
    /\ abort = ""
    /\ resolved = <<>>
    /\ arguments = NoArguments
    /\ is_invalid = FALSE

\* parameter_history.merge(extra_parameters), the first and the second time
CallMerge ==
    /\ pc \in {"merge", "merged"}
    /\ parameter_history' = merge(parameter_history, extra_parameters)
    /\ pc' = IF pc = "merge" THEN "merged" ELSE "merged_twice"
    /\ UNCHANGED <<inputs, actions, loop_state, extra_parameters, api_result_history,
                   action_history, result_object, failed_processing, command, locals,
                   repeats, log, abort, resolved>>

MergeNext == CallMerge

MergeSpec == MergeInit /\ [][MergeNext]_vars

(***************************************************************************)
(* C17.  For all parameter lists P and Q, duplicate names allowed in       *)
(* either, merging P into Q a second time leaves Q as the first merge left *)
(* it: the same parameters with the same names and values in the same      *)
(* order.                                                                  *)
(***************************************************************************)
C17_MergeIdempotent ==
    [][pc = "merged" => parameter_history' = parameter_history]_vars

\* merged twice, other_list holding the name a twice with different values around
\* a b, and self having held the name b twice
C17_Witness ==
    /\ pc = "merged_twice"
    /\ extra_parameters = <<OutputParameter("a", Str("1")), OutputParameter("b", Str("1")),
                            OutputParameter("a", Str("2"))>>
    /\ parameter_history = <<OutputParameter("b", Str("1")), OutputParameter("b", Str("2")),
                             OutputParameter("a", Str("2"))>>

(***************************************************************************)
(* C18.  As claimed: in every state of a run the value of every parameter  *)
(* of the declared sets, of the accumulated scope and of the parameter     *)
(* history is null or a string, also for a BOOLEAN or INTEGER parameter    *)
(* whose value was entered at a prompt or taken from a default value.      *)
(* The prompt stores the converted value: a bool or an int.                *)
(***************************************************************************)
NullOrString(list) == \A i \in 1..Len(list) : list[i].value.t \in {"none", "str"}

C18_Original ==
    /\ \A a \in 1..Len(actions) : NullOrString(actions[a].parameters)
    /\ NullOrString(extra_parameters)
    /\ NullOrString(parameter_history)

(***************************************************************************)
(* C19.  The prompt for the value of one parameter reads at most           *)
(* MaxPromptAttempts (20) inputs: it is only issued while fewer invalid    *)
(* inputs than that were read; the 20th consecutive invalid input makes    *)
(* process_parameters fail, and from then on the run issues no more value  *)
(* prompt, dispatches nothing and ends failed and without a command.       *)
(***************************************************************************)
C19_PromptBound ==
    [][/\ pc = "value_prompt" => attempts < MaxPromptAttempts
       /\ (pc = "value_prompt" /\ attempts' = MaxPromptAttempts) =>
             /\ attempts = MaxPromptAttempts - 1
             /\ pc' = "ack_try" /\ abort' = "parameter_failure"
             /\ UNCHANGED <<log, actions, extra_parameters, histories>>
       /\ attempts = MaxPromptAttempts =>
             /\ pc' \in {"ack_try", "ack_handler", "returned", "raised"}
             /\ abort' = "parameter_failure"
             /\ UNCHANGED <<log, actions, extra_parameters, histories, attempts>>
             /\ pc' = "returned" => (failed_processing' /\ command'.null)]_vars

\* a run that returned after twenty invalid inputs for the first parameter of its
\* only dispatching action
C19_Witness ==
    /\ pc = "returned" /\ attempts = MaxPromptAttempts
    /\ abort = "parameter_failure" /\ failed_processing /\ command.null
    /\ Dispatches(action_index) = 0

(***************************************************************************)
(* Inputs for validate_and_convert_parameter_value, and what the claim     *)
(* says of them, read off their characters.                                *)
(***************************************************************************)
ValidateSamples ==
    {"", "a", "0", "7", "07", "007", "42", "-1", "1a", "1.5", "true", "True", "TRUE",
     "tRuE", "false", "False", "FALSE", "truee", "tru", " true", "y"}

ParameterTypes == {"STRING", "INTEGER", "BOOLEAN", "UNDEFINED"}

UpperChar(c) ==
    CASE c = "a" -> "A" [] c = "e" -> "E" [] c = "f" -> "F" [] c = "l" -> "L"
      [] c = "r" -> "R" [] c = "s" -> "S" [] c = "t" -> "T" [] c = "u" -> "U"
      [] OTHER -> c

\* the text equals the lower-case word when the case of its letters is ignored
EqualIgnoringCase(s, word) ==
    LET chars == Chars(s)
        letters == Chars(word)
    IN /\ Len(chars) = Len(letters)
       /\ \A k \in 1..Len(letters) : chars[k] \in {letters[k], UpperChar(letters[k])}

\* a non-empty text made of digits only
DigitsOnly(s) ==
    /\ s # ""
    /\ \A k \in 1..Len(Chars(s)) :
          Chars(s)[k] \in {"0", "1", "2", "3", "4", "5", "6", "7", "8", "9"}

ShouldAccept(user_input, input_type) ==
    CASE input_type = "STRING" -> TRUE
      [] input_type = "BOOLEAN" ->
            EqualIgnoringCase(user_input, "true") \/ EqualIgnoringCase(user_input, "false")
      [] input_type = "INTEGER" -> DigitsOnly(user_input)
      [] OTHER -> FALSE

(***************************************************************************)
(* C20.  validate_and_convert_parameter_value accepts every input for      *)
(* STRING, for BOOLEAN exactly the inputs equal to true or false when case *)
(* is ignored, for INTEGER exactly the non-empty texts made of digits      *)
(* only, and no input for any other type (UNDEFINED); so a prompt for an   *)
(* UNDEFINED parameter never stores a value and never leads to the         *)
(* dispatch of the action: it is repeated or process_parameters fails.     *)
(***************************************************************************)
C20_Validation ==
    [][pc = "value_prompt" =>
          /\ \A user_input \in ValidateSamples : \A input_type \in ParameterTypes :
                validate_and_convert_parameter_value(user_input, input_type)[1]
                    <=> ShouldAccept(user_input, input_type)
          /\ om_parameter.type \notin {"STRING", "BOOLEAN", "INTEGER"} =>
                /\ pc' \in {"value_prompt", "ack_try"}
                /\ pc' = "ack_try" => abort' \in {"parameter_failure", "user_abort"}
                /\ UNCHANGED <<actions, resolved, param_index, extra_parameters, histories>>
          /\ (pc' \in {"params", "dispatch"}) =>
                /\ om_parameter.type \in {"STRING", "BOOLEAN", "INTEGER"}
                /\ \E typed \in ValueInputs \ {EOF} :
                      LET user_input == EnteredText(typed, om_parameter_copy.default_value)
                      IN /\ ShouldAccept(user_input, om_parameter.type)
                         /\ actions'[action_index + 1].parameters[param_index].value
                               = validate_and_convert_parameter_value(
                                     user_input, om_parameter.type)[2]]_vars

\* the prompt of an UNDEFINED parameter failed after its inputs were all rejected,
\* the parameter still without a value
C20_Witness ==
    /\ pc = "ack_try" /\ param_index > 0 /\ action_index + 1 \in 1..Len(actions)
    /\ param_index <= Len(action.parameters)
    /\ om_parameter.type = "UNDEFINED" /\ om_parameter.value = None
    /\ attempts = MaxPromptAttempts /\ Dispatches(action_index) = 0

(***************************************************************************)
(* C21.  With skip_looping set, a LOOP_START or LOOP_END under the cursor  *)
(* (its skip conditions evaluated without raising) only advances the       *)
(* cursor by one; in the whole run no loop-repeat prompt is issued or      *)
(* answered, loop_stack and loop_starts stay empty, and the run never      *)
(* aborts on a loop mismatch, whatever the nesting of the markers.         *)
(***************************************************************************)
LoopEvents == {"loop_prompt", "yes", "no"}

C21_SkipLooping ==
    [][skip_looping =>
          /\ loop_stack' = <<>>
          /\ \A n \in DOMAIN loop_starts' : loop_starts'[n] = NoIndex
          /\ abort' # "loop_mismatch" /\ pc' # "loop_prompt"
          /\ \A k \in 1..Len(log') : log'[k].e \notin LoopEvents
          /\ (/\ AtAction /\ action.type \in {"LOOP_START", "LOOP_END"}
              /\ should_skip_action(action, extra_parameters) # "raise") =>
                /\ action_index' = action_index + 1 /\ pc' = "top"
                /\ UNCHANGED <<actions, extra_parameters, histories, failed_processing,
                               command, locals, log, abort, resolved>>
                /\ result_object' \in {result_object,
                                       [result_object EXCEPT !.repeat_loop = "None"]}]_vars

\* a run over crossed markers that completed with skip_looping set
C21_Witness ==
    /\ skip_looping /\ operation.operation_id = "crossed"
    /\ pc = "returned" /\ ~command.null /\ abort = ""
    /\ Dispatches(2) = 1 /\ loop_stack = <<>>

(***************************************************************************)
(* The step of process_looping that acts on the repeat_loop of the last    *)
(* Result: the action under the cursor was not skipped, carries a loop     *)
(* number, and skip_looping is off.                                        *)
(***************************************************************************)
ActsOnRepeatLoop(flag) ==
    /\ ~skip_looping /\ NotSkipped
    /\ result_object.repeat_loop = flag /\ action.loop_number # NoLoop

\* the step issues no prompt, answers none, dispatches nothing, and clears the flag
SilentAndCleared ==
    /\ pc' = "top" /\ result_object'.repeat_loop = "None"
    /\ \A k \in 1..Len(log') : k > Len(log) => log'[k].e = "repeat_loop"
    /\ UNCHANGED <<actions, extra_parameters, histories, failed_processing, command,
                   abort, loop_starts>>

\* the stack without its top element; the empty stack when it has none
WithoutTop(stack) == [k \in 1..(Len(stack) - 1) |-> stack[k]]

(***************************************************************************)
(* C22.  As claimed: on repeat_loop = true the next processed action       *)
(* (carrying loop number n) sends the cursor back to loop_starts[n], an    *)
(* index recorded earlier, with the loop stack unchanged and without a     *)
(* prompt; on repeat_loop = false loop n is popped and the cursor advances *)
(* by one without a prompt; either way the flag is cleared.                *)
(***************************************************************************)
C22_Original ==
    [][/\ ActsOnRepeatLoop("True") =>
            /\ action_index' = loop_starts[action.loop_number]
            /\ action_index' \in 0..action_index
            /\ loop_stack' = loop_stack /\ SilentAndCleared
       /\ ActsOnRepeatLoop("False") =>
            /\ loop_stack # <<>> /\ loop_stack[Len(loop_stack)] = action.loop_number
            /\ loop_stack' = WithoutTop(loop_stack)
            /\ action_index' = action_index + 1 /\ SilentAndCleared]_vars

(***************************************************************************)
(* C22, amended.  On repeat_loop = true the cursor is set to what          *)
(* loop_starts holds for n, which is no index when no LOOP_START(n) was    *)
(* processed, the loop stack unchanged; on repeat_loop = false the top of  *)
(* the loop stack is popped, whatever its number and if there is one, and  *)
(* the cursor advances by one; neither step prompts and both clear the     *)
(* flag, so that the following iteration does not act on it again.         *)
(***************************************************************************)
C22_RepeatLoopFlag ==
    [][/\ ActsOnRepeatLoop("True") =>
            /\ action_index' = loop_starts[action.loop_number]
            /\ loop_stack' = loop_stack /\ SilentAndCleared
       /\ ActsOnRepeatLoop("False") =>
            /\ loop_stack' = WithoutTop(loop_stack)
            /\ action_index' = action_index + 1 /\ SilentAndCleared
       /\ (pc = "top" /\ pc' = "top" /\ result_object.repeat_loop = "None") =>
            result_object'.repeat_loop = "None"]_vars

\* sel returned repeat_loop = true, the run jumped back from LOOP_END(1) to
\* LOOP_START(1) without a prompt and sel was dispatched again
C22_Witness ==
    /\ operation.operation_id = "select" /\ ~skip_looping
    /\ Count("repeat_loop", 2) = 1 /\ Dispatches(1) = 2
    /\ Count("loop_prompt", 2) = 0 /\ loop_stack = <<1>>

(***************************************************************************)
(* C23.  With skip_looping off, when the last Result carries a repeat_loop *)
(* that is not null and the next action that is not skipped has no         *)
(* loop_number, the run aborts: that action is not dispatched, nothing is  *)
(* dispatched afterwards, no command is generated and the run ends with    *)
(* failed_processing set (or leaves through end-of-input at the prompt of  *)
(* the handler).                                                           *)
(***************************************************************************)
RepeatLoopWithoutNumber ==
    /\ ~skip_looping /\ NotSkipped
    /\ result_object.repeat_loop # "None" /\ action.loop_number = NoLoop

C23_NoLoopNumberAborts ==
    [][/\ RepeatLoopWithoutNumber =>
            /\ pc' = "ack_handler" /\ abort' = "exception"
            /\ UNCHANGED <<log, action_index, actions, extra_parameters, histories,
                           command>>
       /\ abort = "exception" =>
            /\ pc' \in {"returned", "raised"} /\ abort' = abort
            /\ UNCHANGED <<log, action_index, actions, extra_parameters, histories>>
            /\ command'.null
            /\ pc' = "returned" => failed_processing']_vars

\* sel returned a repeat_loop, the next action carries no loop number: the run
\* returned without dispatching it and without a command
C23_Witness ==
    /\ operation.operation_id = "select_unnumbered" /\ ~skip_looping
    /\ pc = "returned" /\ abort = "exception" /\ failed_processing /\ command.null
    /\ result_object.repeat_loop # "None"
    /\ Dispatches(1) = 1 /\ Dispatches(2) = 0

(***************************************************************************)
(* C24.  A dispatched action whose Result has repeat_action = true (and    *)
(* repeat_loop = null) leads to the question whether to repeat it, the     *)
(* action being recorded in the action history.  On 'y' the run is back at *)
(* the top of the loop with the cursor unchanged, the failure-termination  *)
(* check not applied; the action, unless its skip conditions now hold, is  *)
(* then processed with is_repeated true.  On any other answer the check is *)
(* applied: a failed Result of an action with failure_termination stops    *)
(* the run, otherwise the cursor advances by one.                          *)
(***************************************************************************)
ReturnsRepeatAction ==
    /\ pc = "dispatch" /\ log' # log /\ pc' # "ack_handler"
    /\ result_object'.repeat_action /\ result_object'.repeat_loop = "None"

\* the last thing that happened is the answer 'y' to the repeat question of the
\* action under the cursor
JustRepeated ==
    /\ pc = "top" /\ log # <<>> /\ log[Len(log)] = Event("repeat_action", action_index)

C24_RepeatAction ==
    [][/\ ReturnsRepeatAction =>
            /\ pc' = "repeat_prompt" /\ action_index' = action_index
            /\ action.name \in action_history'
            /\ UNCHANGED <<abort, parameter_history>>
       /\ (pc = "repeat_prompt" /\ log' = Append(log, Event("repeat_action", action_index))) =>
            /\ pc' = "top" /\ action_index' = action_index
            /\ UNCHANGED <<abort, failed_processing, result_object, histories,
                           extra_parameters>>
       /\ (pc = "repeat_prompt" /\ log' = log) =>
            IF ~result_object.success /\ action.failure_termination
            THEN /\ pc' = "ack_try" /\ abort' = "failure_termination"
                 /\ action_index' = action_index
            ELSE /\ pc' = "top" /\ abort' = abort
                 /\ action_index' = action_index + 1
       /\ (JustRepeated /\ NotSkipped /\ result_object.repeat_loop = "None") =>
            /\ pc' \in {"params", "dispatch"} /\ is_repeated'
            /\ action_index' = action_index /\ abort' = abort]_vars

\* rep failed with repeat_action, the user answered 'y': the run did not stop on
\* the failure and rep is about to be dispatched again, as a repeated action
C24_Witness ==
    /\ operation.operation_id = "failure" /\ action_index = 3
    /\ pc = "dispatch" /\ is_repeated /\ abort = ""
    /\ Count("repeat_action", 3) = 1 /\ Dispatches(3) = 1
    /\ ~result_object.success /\ result_object.repeat_action

(***************************************************************************)
(* C25.  process_operation leaves the Operation it is given unchanged: no  *)
(* step of a run changes the operation (nor the arguments or the flag), so *)
(* that at every point of the run, its end included, the inputs are still  *)
(* the ones the run was started with and a second run starts from the same *)
(* initial state.                                                          *)
(***************************************************************************)
GivenInputs ==
    [operation |-> operation, argument_parameters |-> argument_parameters,
     skip_looping |-> skip_looping]

C26_Original ==
    ItemValue(extra_parameters, "operation_id") = Str(operation.operation_id)

(***************************************************************************)
(* verify_arguments (parameter_processing.py, lines 39-101) and            *)
(* validate_parameter_argument (lines 104-143).  A third specification:    *)
(* the operation and the arguments are drawn from the operations that      *)
(* declare at most MaxDeclared parameters named p or q, of type STRING or  *)
(* INTEGER, flagged command_parameter or not, in one action or in one      *)
(* action each (with an action without parameters between them), and from  *)
(* the arguments that give "7" or "a" to some of p and q.  One step of the *)
(* specification is one turn of the loop over the declared parameters;     *)
(* argument_parameters is the list om_parameters that is returned.         *)
(***************************************************************************)
MaxDeclared == 2

VerifyParameters ==
    {[OMParameter(name) EXCEPT !.type = type, !.command_parameter = flagged] :
        name \in {"p", "q"}, type \in {"STRING", "INTEGER"}, flagged \in BOOLEAN}

DeclaredLists == UNION {[1..n -> VerifyParameters] : n \in 0..MaxDeclared}

\* each parameter in an action of its own, an action without parameters after each
RECURSIVE OneActionEach(_, _)
OneActionEach(parameters, k) ==
    IF k > Len(parameters) THEN <<>>
    ELSE <<[Act EXCEPT !.parameters = <<parameters[k]>>], Act>>
            \o OneActionEach(parameters, k + 1)

VerifyOperations ==
    {[operation_id |-> "verify", actions |-> <<[Act EXCEPT !.parameters = parameters]>>] :
        parameters \in DeclaredLists}
    \cup {[operation_id |-> "verify", actions |-> OneActionEach(parameters, 1)] :
            parameters \in DeclaredLists}

ArgumentDicts ==
    UNION {[names -> {"7", "a"}] : names \in SUBSET {"p", "q"}}

VerifyInit ==
    /\ operation \in VerifyOperations
    /\ arguments \in ArgumentDicts
    /\ is_invalid = FALSE
    /\ argument_parameters = <<>>
    /\ skip_looping = FALSE
    /\ actions = operation.actions
    /\ action_index = 0
    /\ loop_stack = <<>>
    /\ loop_starts = [n \in {} |-> NoIndex]
    /\ extra_parameters = <<>>
    /\ parameter_history = <<>>
    /\ api_result_history = <<>>
    /\ action_history = {}
    /\ result_object = ResultObject(TRUE, "", NoResponse, <<>>)
    /\ failed_processing = FALSE
    /\ command = NoCommand
    /\ pc = "verify_begin"
    /\ is_repeated = FALSE
    /\ param_index = 0
    /\ attempts = 0
    /\ acks = 0
    /\ repeats = 0
    /\ log = <<>>
    /\ abort = ""
    /\ resolved = <<>>

\* check_actions_for_parameters(operation.actions) is not empty
HasDeclaredParameters ==
    \E a \in 1..Len(operation.actions) : has_items(operation.actions[a].parameters)

\* the index of the first action from index a on that has parameters, the number
\* of actions when there is none
RECURSIVE FirstWithItems(_)
FirstWithItems(a) ==
    IF a >= Len(operation.actions) THEN Len(operation.actions)
    ELSE IF has_items(operation.actions[a + 1].parameters) THEN a
    ELSE FirstWithItems(a + 1)

\* validate_parameter_argument: found, is_invalid and the OMParameter built
validate_parameter_argument(args, parameter) ==
    IF parameter.name \notin DOMAIN args
    THEN [found |-> FALSE, is_invalid |-> FALSE, om_parameter |-> None]
    ELSE LET value == args[parameter.name]
             checked == validate_and_convert_parameter_value(value, parameter.type)
         IN IF ~checked[1]
            THEN [found |-> TRUE, is_invalid |-> TRUE, om_parameter |-> None]
            ELSE [found |-> TRUE, is_invalid |-> FALSE,
                  om_parameter |-> [OMParameter(parameter.name) EXCEPT
                                       !.type = parameter.type, !.value = Str(value),
                                       !.action_index = parameter.action_index]]

\* lines 53-59: nothing given and nothing declared returns None; else the loop starts
VerifyBegin ==
    /\ pc = "verify_begin"
    /\ IF arguments = NoArguments /\ ~HasDeclaredParameters
       THEN pc' = "verify_none" /\ UNCHANGED <<action_index, param_index>>
       ELSE /\ pc' = "verify"
            /\ action_index' = FirstWithItems(0)
            /\ param_index' = 1
    /\ is_invalid' = FALSE
    /\ argument_parameters' = <<>>
    /\ UNCHANGED <<operation, arguments, skip_looping, actions, loop_stack, loop_starts,
                   extra_parameters, histories, result_object, failed_processing,
                   command, is_repeated, attempts, acks, repeats, log, abort, resolved>>

\* lines 62-91: one declared parameter
VerifyParameter ==
    /\ pc = "verify" /\ action_index < Len(operation.actions)
    /\ LET parameter == operation.actions[action_index + 1].parameters[param_index]
           outcome == validate_parameter_argument(arguments, parameter)
       IN IF \/ \E i \in 1..Len(argument_parameters) :
                    argument_parameters[i].name = parameter.name
             \/ ~parameter.command_parameter
          THEN UNCHANGED <<argument_parameters, is_invalid>>
          ELSE /\ argument_parameters' =
                      IF outcome.found /\ ~outcome.is_invalid
                      THEN add_parameter(argument_parameters, outcome.om_parameter)
                      ELSE argument_parameters
               /\ is_invalid' = IF ~outcome.found THEN TRUE ELSE outcome.is_invalid
    /\ IF param_index < Len(operation.actions[action_index + 1].parameters)
       THEN param_index' = param_index + 1 /\ UNCHANGED action_index
       ELSE param_index' = 1 /\ action_index' = FirstWithItems(action_index + 1)
    /\ UNCHANGED <<operation, arguments, skip_looping, actions, loop_stack, loop_starts,
                   extra_parameters, histories, result_object, failed_processing,
                   command, pc, is_repeated, attempts, acks, repeats, log, abort,
                   resolved>>

\* lines 97-101: sys.exit() when is_invalid, else the list is returned
VerifyEnd ==
    /\ pc = "verify" /\ action_index >= Len(operation.actions)
    /\ pc' = IF is_invalid THEN "verify_exit" ELSE "verify_returned"
    /\ UNCHANGED <<inputs, actions, loop_state, extra_parameters, histories,
                   result_object, failed_processing, command, locals, repeats, log,
                   abort, resolved>>

VerifyNext == VerifyBegin \/ VerifyParameter \/ VerifyEnd

VerifySpec == VerifyInit /\ [][VerifyNext]_vars

\* the parameters the operation declares, in the order verify_arguments meets them
RECURSIVE DeclaredFrom(_)
DeclaredFrom(a) ==
    IF a > Len(operation.actions) THEN <<>>
    ELSE operation.actions[a].parameters \o DeclaredFrom(a + 1)

DeclaredOnce ==
    \A i, j \in 1..Len(DeclaredFrom(1)) :
        DeclaredFrom(1)[i].name = DeclaredFrom(1)[j].name => i = j

\* a command parameter whose argument is given and fails the validation of its type
FailsValidation(parameter) ==
    /\ parameter.command_parameter /\ parameter.name \in DOMAIN arguments
    /\ ~validate_and_convert_parameter_value(arguments[parameter.name], parameter.type)[1]

\* a command parameter for which no argument is given
NotSupplied(parameter) ==
    parameter.command_parameter /\ parameter.name \notin DOMAIN arguments

(***************************************************************************)
(* C27.  As claimed: verify_arguments returns no parameter list whenever   *)
(* an argument fails the type validation of the parameter it names,        *)
(* wherever that parameter is declared.  Stated here for the least         *)
(* disputable case, command parameters each declared once: is_invalid is   *)
(* overwritten by the result for every later command parameter, so the     *)
(* list is returned when a valid one follows the invalid one.              *)
(***************************************************************************)
C27_Original ==
    (/\ DeclaredOnce
     /\ \E k \in 1..Len(DeclaredFrom(1)) : FailsValidation(DeclaredFrom(1)[k]))
        => pc \notin {"verify_returned", "verify_none"}

(***************************************************************************)
(* C28.  As claimed: verify_arguments returns no parameter list whenever a *)
(* parameter flagged command_parameter has no argument, whatever is        *)
(* declared after it (each name declared once).  A later command parameter *)
(* with a valid argument resets is_invalid, and the list is returned.      *)
(***************************************************************************)
C28_Original ==
    (/\ DeclaredOnce
     /\ \E k \in 1..Len(DeclaredFrom(1)) : NotSupplied(DeclaredFrom(1)[k]))
        => pc \notin {"verify_returned", "verify_none"}

(***************************************************************************)
(* C29.  As claimed: an API_REQUEST whose endpoint declares a response     *)
(* variable v with dotted path p, and whose response has status below 400  *)
(* and a JSON body holding x at p, returns success=true and adds a         *)
(* parameter named v to the accumulated scope and the parameter history,   *)
(* valued with the string form of x (JSON-encoded when x is an object or   *)
(* array); the response text is appended to the API-result history.  As    *)
(* stated this fails when x is the JSON null: the parameter v is added     *)
(* with no value (None) instead of a string.                               *)
(***************************************************************************)
\* the keys a dotted path names, as the claim reads it
PathKeysOf(path) ==
    CASE path = "data.id" -> <<"data", "id">>
      [] path = "data.count" -> <<"data", "count">>
      [] path = "data.flag" -> <<"data", "flag">>
      [] path = "data.items.id" -> <<"data", "items", "id">>
      [] path = "data" -> <<"data">>
      [] path = "." -> <<>>

HasKey(object, key) == \E i \in 1..Len(object.v) : object.v[i][1] = key

MemberOf(object, key) ==
    object.v[CHOOSE i \in 1..Len(object.v) : object.v[i][1] = key][2]

\* the body holds a value at the keys from the k-th on: every key but the last
\* names a member that is an object
RECURSIVE HoldsAt(_, _, _)
HoldsAt(body, keys, k) ==
    IF k > Len(keys) THEN TRUE
    ELSE /\ body.t = "dict" /\ HasKey(body, keys[k])
         /\ HoldsAt(MemberOf(body, keys[k]), keys, k + 1)

RECURSIVE HeldAt(_, _, _)
HeldAt(body, keys, k) ==
    IF k > Len(keys) THEN body ELSE HeldAt(MemberOf(body, keys[k]), keys, k + 1)

\* the JSON text of the objects and arrays the responses hold
JsonTextOf(x) ==
    CASE x = RegistryBody -> "{\"data\": {\"id\": \"registry-1\"}}"
      [] x = FullBody ->
            "{\"data\": {\"id\": \"registry-1\", \"count\": 42, \"flag\": true, "
                \o "\"items\": [{\"id\": \"a\"}, 7]}}"
      [] x = FullBody.v[1][2] ->
            "{\"id\": \"registry-1\", \"count\": 42, \"flag\": true, "
                \o "\"items\": [{\"id\": \"a\"}, 7]}"
      [] x = NullBody ->
            "{\"data\": {\"id\": null, \"count\": 0, \"flag\": false, \"items\": []}}"
      [] x = NullBody.v[1][2] ->
            "{\"id\": null, \"count\": 0, \"flag\": false, \"items\": []}"
      [] x = Dict(<<>>) -> "{}"
      [] x = Dict(<<<<"data", Str("text")>>>>) -> "{\"data\": \"text\"}"
      [] x = List(<<RegistryBody>>) -> "[{\"data\": {\"id\": \"registry-1\"}}]"

\* the string form of x: a string is itself, a number its digits, a boolean
\* Python's "True" or "False", an object or an array its JSON text
StringFormOf(x) ==
    CASE x.t = "none" -> "null"
      [] x.t \in {"str", "int", "bool"} -> x.v
      [] x.t \in {"dict", "list"} -> JsonTextOf(x)

\* this step dispatches the API_REQUEST under the cursor
ApiDispatched ==
    /\ pc = "dispatch" /\ action.type = "API_REQUEST"
    /\ log' = Append(log, Event("dispatch", action_index))

\* the k-th response variable of the endpoint is held by the response received
VariableHeld(name, response, k) ==
    /\ response.present /\ response.status_code < 400 /\ response.data.t # "invalid"
    /\ HoldsAt(response.data, PathKeysOf(ResponseVariables(name)[k][2]), 1)

ValueHeld(name, response, k) ==
    HeldAt(response.data, PathKeysOf(ResponseVariables(name)[k][2]), 1)

\* the Result, the scope and the histories after the step, for a variable
\* holding x
VariableAdded(variable, x) ==
    /\ result_object'.success
    /\ ItemValue(extra_parameters', variable) = Str(StringFormOf(x))
    /\ ItemValue(parameter_history', variable) = Str(StringFormOf(x))
    /\ api_result_history' = Append(api_result_history, result_object'.response.text)

C29_Original ==
    [][ApiDispatched =>
        \A k \in 1..Len(ResponseVariables(action.name)) :
            VariableHeld(action.name, result_object'.response, k) =>
                VariableAdded(ResponseVariables(action.name)[k][1],
                              ValueHeld(action.name, result_object'.response, k))]_vars

\* C29, amended: the same for every x that is not null; for the JSON null the
\* parameter v is added to the scope and the history with the value None
C29_ResponseVariables ==
    [][ApiDispatched =>
        \A k \in 1..Len(ResponseVariables(action.name)) :
            VariableHeld(action.name, result_object'.response, k) =>
                LET variable == ResponseVariables(action.name)[k][1]
                    x == ValueHeld(action.name, result_object'.response, k)
                IN  IF x.t # "none" THEN VariableAdded(variable, x)
                    ELSE /\ result_object'.success
                         /\ ItemValue(extra_parameters', variable) = None
                         /\ ItemValue(parameter_history', variable) = None]_vars

\* the run of "vars" has returned after the endpoint answered 201 with the full
\* body: the string, the number, the boolean and the object are in the scope
C29_Witness ==
    /\ operation.operation_id = "vars" /\ pc = "returned" /\ abort = ""
    /\ Len(api_result_history) = 3 /\ api_result_history[3] = JsonTextOf(FullBody)
    /\ ItemValue(extra_parameters, "id") = Str("registry-1")
    /\ ItemValue(extra_parameters, "count") = Str("42")
    /\ ItemValue(extra_parameters, "flag") = Str("True")
    /\ ItemValue(extra_parameters, "data") = Str(JsonTextOf(FullBody.v[1][2]))
    /\ ItemValue(parameter_history, "body") = Str(JsonTextOf(FullBody))

(***************************************************************************)
(* C30.  As claimed: in every reachable state of a run the cursor is an    *)
(* integer with 0 <= cursor <= len(actions), and every backward jump       *)
(* (loop-repeat answer 'y' or repeat_loop=true) sets it to an index        *)
(* recorded in loop_starts by a LOOP_START that was processed earlier in   *)
(* the run; the cursor is never set to an undefined value.                 *)
(***************************************************************************)
\* the step moves the cursor otherwise than by advancing it by one
CursorJumps == action_index' # action_index /\ action_index' # action_index + 1

C30_Original ==
    [][/\ action_index' \in 0..Len(actions')
       /\ CursorJumps =>
            \E n \in DOMAIN loop_starts :
                loop_starts[n] # NoIndex /\ action_index' = loop_starts[n]]_vars

(***************************************************************************)
(* C31.  As claimed: the failure text process_parameters returns on        *)
(* end-of-input is the text process_operation compares against, so an      *)
(* end-of-input at a parameter prompt is handled by the user-abort branch  *)
(* (lines 164-172) and not by the generic parameter-failure branch (lines  *)
(* 174-182).                                                               *)
(***************************************************************************)
\* this step reads end-of-input at the prompt for the value of a parameter
EndOfInputAtParameter ==
    /\ pc = "value_prompt"
    /\ log' = Append(log, Event("eof", action_index))

C31_Original ==
    [][EndOfInputAtParameter => abort' = "user_abort"]_vars

(***************************************************************************)
(* C32.  As claimed: the accumulated scope is consulted under the same     *)
(* rule as the arguments (skip_looping set, or parameter sticky, or action *)
(* not repeated): with skip_looping set, a non-stick parameter of a        *)
(* repeated action that is absent from the arguments but present in the    *)
(* accumulated scope takes the accumulated value and is not prompted for.  *)
(***************************************************************************)
\* process_parameters is at a non-stick parameter of a repeated action, with
\* skip_looping set, that only the accumulated scope holds
NonStickOnlyInScope ==
    /\ pc = "params" /\ om_parameter.name # "operation_id"
    /\ skip_looping /\ is_repeated /\ om_parameter.non_stick
    /\ get_om_parameter(argument_parameters, input_name, action_index) = 0
    /\ get_om_parameter(extra_parameters, input_name, action_index) > 0

C32_Original ==
    [][NonStickOnlyInScope =>
        /\ pc' # "value_prompt"
        /\ Len(resolved') = Len(resolved) + 1
        /\ resolved'[Len(resolved')].source = "extra"
        /\ actions'[action_index + 1].parameters[param_index].value =
             extra_parameters[get_om_parameter(extra_parameters, input_name,
                                               action_index)].value]_vars

(***************************************************************************)
(* C33.  As claimed: on a repeated dispatch with skip_looping off, a       *)
(* sticky parameter that has a value in the accumulated scope takes that   *)
(* accumulated value without a prompt, also when the arguments hold a      *)
(* different value for the same name; the argument value takes precedence  *)
(* over the accumulated one only when skip_looping is set.                 *)
(***************************************************************************)
\* the value the accumulated scope holds for the parameter process_parameters
\* is at, Missing when it holds none
AccumulatedValue ==
    IF get_om_parameter(extra_parameters, input_name, action_index) = 0 THEN Missing
    ELSE extra_parameters[get_om_parameter(extra_parameters, input_name,
                                           action_index)].value

\* process_parameters is at a sticky parameter of a repeated action, with
\* skip_looping off, that has a value in the accumulated scope
StickyInScope ==
    /\ pc = "params" /\ om_parameter.name # "operation_id"
    /\ ~skip_looping /\ is_repeated /\ ~om_parameter.non_stick
    /\ AccumulatedValue # Missing /\ AccumulatedValue # None

C33_Original ==
    [][StickyInScope =>
        /\ pc' # "value_prompt"
        /\ actions'[action_index + 1].parameters[param_index].value = AccumulatedValue]_vars

(***************************************************************************)
(* C34.  As claimed: evaluating the skip conditions of an action never     *)
(* aborts the run: for every condition and every accumulated scope         *)
(* (parameter absent, present with a null value, present with text that    *)
(* is not JSON, present with JSON text) the evaluation yields a boolean,   *)
(* and the run goes on to skip or to process the action.                   *)
(***************************************************************************)
C34_Original ==
    [][AtAction =>
        /\ should_skip_action(action, extra_parameters) \in {"True", "False"}
        /\ (Len(action.skip_if_conditions) > 0 /\ action.type = "FUNCTION_CALL") =>
                \/ action_index' = action_index + 1 /\ pc' = "top"
                \/ action_index' = action_index /\ pc' \in {"params", "dispatch"}]_vars

(***************************************************************************)
(* C35.  With skip_looping off and no pending repeat_loop, processing      *)
(* LOOP_START(n): if n is not on the loop stack, loop_starts[n] becomes    *)
(* the current index and n is pushed; if n is already on the stack (the    *)
(* body is being replayed), loop_starts and the stack are unchanged; in    *)
(* both cases the cursor advances by exactly one and nothing is            *)
(* dispatched.                                                             *)
(***************************************************************************)
\* process_looping is at a LOOP_START that its conditions did not skip
ProcessesLoopStart ==
    /\ AtAction /\ should_skip_action(action, extra_parameters) = "False"
    /\ ~skip_looping /\ result_object.repeat_loop = "None"
    /\ action.type = "LOOP_START"

OnLoopStack(n) == \E i \in 1..Len(loop_stack) : loop_stack[i] = n

C35_LoopStart ==
    [][ProcessesLoopStart =>
        /\ IF OnLoopStack(action.loop_number)
           THEN loop_starts' = loop_starts /\ loop_stack' = loop_stack
           ELSE /\ loop_starts' = [n \in DOMAIN loop_starts |->
                                    IF n = action.loop_number THEN action_index
                                    ELSE loop_starts[n]]
                /\ loop_stack' = loop_stack \o <<action.loop_number>>
        /\ action_index' = action_index + 1
        /\ log' = log /\ pc' = "top" /\ abort' = abort
        /\ UNCHANGED <<actions, extra_parameters, histories, result_object>>]_vars

\* the body of loop 1 is being replayed after the answer 'y': LOOP_START(1) was
\* processed a second time and left its record and the stack as they were
C35_Witness ==
    /\ operation.operation_id = "loop1" /\ ~skip_looping
    /\ pc = "top" /\ action_index = 1
    /\ Count("yes", 2) = 1 /\ Dispatches(1) = 1
    /\ loop_stack = <<1>> /\ loop_starts[1] = 0

(***************************************************************************)
(* C36.  In every reachable state the loop stack holds no loop number      *)
(* twice, and every loop number on the stack has an entry in loop_starts   *)
(* equal to the index of the LOOP_START action that pushed it.             *)
(***************************************************************************)
NoNumberTwice(stack) ==
    \A i, j \in 1..Len(stack) : stack[i] = stack[j] => i = j

\* every number on the stack is recorded at the index of a LOOP_START carrying it
StartsRecorded(stack, starts) ==
    \A i \in 1..Len(stack) :
        /\ starts[stack[i]] \in 0..(Len(actions) - 1)
        /\ actions[starts[stack[i]] + 1].type = "LOOP_START"
        /\ actions[starts[stack[i]] + 1].loop_number = stack[i]

\* after every step: the stack is duplicate-free and recorded; a number is pushed
\* by the LOOP_START under the cursor only, which records the cursor; and the
\* record of a number that stays on the stack is not rewritten
C36_LoopStackRecorded ==
    [][/\ NoNumberTwice(loop_stack') /\ StartsRecorded(loop_stack', loop_starts')
       /\ Len(loop_stack') > Len(loop_stack) =>
            /\ action.type = "LOOP_START"
            /\ loop_stack' = loop_stack \o <<action.loop_number>>
            /\ loop_starts'[action.loop_number] = action_index
       /\ \A i \in 1..Len(loop_stack) :
            (\E j \in 1..Len(loop_stack') : loop_stack'[j] = loop_stack[i]) =>
                loop_starts'[loop_stack[i]] = loop_starts[loop_stack[i]]]_vars

\* two LOOP_START(1) in a row: the second found 1 on the stack, and the record of
\* loop 1 is still the index of the first
C36_Witness ==
    /\ operation.operation_id = "same_number" /\ ~skip_looping
    /\ pc = "top" /\ action_index = 2 /\ log = <<>>
    /\ loop_stack = <<1>> /\ loop_starts[1] = 0

(***************************************************************************)
(* C37.  With skip_looping set, if no dispatched action returns            *)
(* repeat_action=true or a non-null repeat_loop, the cursor increases by   *)
(* exactly one at every iteration, each action is dispatched at most once, *)
(* and the run ends (cleanly or by abort) after at most len(actions)       *)
(* iterations.  Checked for every run in which no action was repeated on   *)
(* the answer 'y' and no repeat_loop flag was acted on, which includes the *)
(* runs of the claim.                                                      *)
(***************************************************************************)
NothingReplayed(events) ==
    \A k \in 1..Len(events) : events[k].e \notin {"repeat_action", "repeat_loop"}

\* a step of such a run: the cursor stays while the iteration is under way, and
\* the run is back at the top of the while loop exactly when it advanced by one
C37_SkipLoopingTerminates ==
    [][(skip_looping /\ NothingReplayed(log')) =>
        /\ action_index' \in 0..Len(actions)
        /\ action_index' \in {action_index, action_index + 1}
        /\ pc' = "top" => action_index' = action_index + 1
        /\ action_index' = action_index + 1 => pc' = "top"
        /\ \A i \in 0..(Len(actions) - 1) : Cardinality({k \in 1..Len(log') :
                log'[k] = Event("dispatch", i)}) <= 1]_vars

\* a run over two loops in sequence with skip_looping set came to its end: both
\* bodies were dispatched once and the cursor is past the last action
C37_Witness ==
    /\ skip_looping /\ operation.operation_id = "sequence"
    /\ pc = "returned" /\ abort = "" /\ action_index = Len(actions)
    /\ Dispatches(1) = 1 /\ Dispatches(4) = 1 /\ Len(log) = 2

(***************************************************************************)
(* C38.  A skipped action changes nothing but the cursor (advanced by      *)
(* one): it is not dispatched, its parameters are not resolved and no      *)
(* prompt is issued, it is not recorded in the action history, and the     *)
(* loop state, the accumulated scope and both histories are unchanged;     *)
(* this also holds when the skipped action is a LOOP_START or LOOP_END     *)
(* marker, and a pending repeat_loop flag then stays pending for the next  *)
(* action.                                                                 *)
(***************************************************************************)
\* the skip conditions of the action under the cursor evaluate to true
SkipsAction == AtAction /\ should_skip_action(action, extra_parameters) = "True"

C38_SkipFrame ==
    [][SkipsAction =>
        /\ action_index' = action_index + 1
        /\ log' = log /\ resolved' = resolved /\ pc' = "top"
        /\ action_history' = action_history
        /\ loop_stack' = loop_stack /\ loop_starts' = loop_starts
        /\ extra_parameters' = extra_parameters
        /\ parameter_history' = parameter_history
        /\ api_result_history' = api_result_history
        /\ actions' = actions /\ result_object' = result_object
        /\ abort' = abort /\ command' = command
        /\ failed_processing' = failed_processing]_vars

\* sel returned repeat_loop=true and the LOOP_END after it was skipped by its
\* conditions: the flag is still pending with the cursor on the next action
C38_Witness ==
    /\ operation.operation_id = "skip_pending" /\ pc = "top" /\ action_index = 3
    /\ Dispatches(0) = 1 /\ Dispatches(1) = 1 /\ Len(log) = 2
    /\ result_object.repeat_loop = "True" /\ loop_stack = <<>>
    /\ action_history = {"json", "sel"}

(***************************************************************************)
(* C39.  In every reachable state of a run the accumulated scope and the   *)
(* parameter history each hold at most one parameter per name, whatever    *)
(* duplicate names the actions declare or return as outputs.               *)
(***************************************************************************)
OnePerName(parameters) ==
    \A i, j \in 1..Len(parameters) : parameters[i].name = parameters[j].name => i = j

C39_OnePerName == OnePerName(extra_parameters) /\ OnePerName(parameter_history)

\* an action that declares p twice and an action that returns d twice were both
\* dispatched: the scope and the history hold p and d once, with the last values
C39_Witness ==
    /\ operation.operation_id = "duplicates" /\ pc = "returned" /\ abort = ""
    /\ Dispatches(0) = 1 /\ Dispatches(1) = 1
    /\ ItemValue(extra_parameters, "p") = Str("1")
    /\ ItemValue(extra_parameters, "d") = Str("2")
    /\ ItemValue(parameter_history, "d") = Str("2")
    /\ Len(extra_parameters) = 3 /\ Len(parameter_history) = 3

(***************************************************************************)
(* C40.  An action is treated as repeated (for non-stick resolution)       *)
(* exactly when an action with the same name has already been dispatched   *)
(* in this run: this includes a different action at another index that     *)
(* shares the name, and a dispatch that returned a failure; it excludes    *)
(* actions that were skipped or aborted before dispatch; loop markers are  *)
(* never recorded.                                                         *)
(***************************************************************************)
\* the names of the actions dispatched so far, by the indexes in the log
DispatchedNames(events) ==
    {actions[events[k].i + 1].name : k \in {n \in 1..Len(events) : events[n].e = "dispatch"}}

\* the names of the actions that are no loop markers
CallableNames ==
    {actions[i].name : i \in {n \in 1..Len(actions) :
                                actions[n].type \notin {"LOOP_START", "LOOP_END"}}}

\* is_repeated, read when the processing of an action begins, says whether the
\* name was dispatched before; and while the run has not aborted the action
\* history is the set of the names dispatched, none of them a loop marker's
C40_RepeatedByName ==
    [][/\ (pc = "top" /\ pc' \in {"params", "dispatch"}) =>
            is_repeated' = (action.name \in DispatchedNames(log))
       /\ abort' = "" => action_history' = DispatchedNames(log')
       /\ action_history' \subseteq CallableNames]_vars

\* the second act of "restick" is about to be dispatched as a repeated action,
\* though its own index was never dispatched: the first act shares its name
C40_Witness ==
    /\ operation.operation_id = "restick" /\ action_index = 2 /\ pc = "dispatch"
    /\ is_repeated /\ Dispatches(0) = 1 /\ Dispatches(1) = 1 /\ Dispatches(2) = 0
    /\ action_history = {"act", "out"}

====
